---- MODULE Spec2Model ----
(***************************************************************************)
(* Verification model of the Agora core (omen4impact/agora):               *)
(*   - core/src/crypto.rs : EncryptedChannel, SessionKeyManager            *)
(*   - core/src/mixer.rs  : MixerManager                                   *)
(*   - core/src/ice.rs    : IceAgent                                       *)
(*   - core/src/protocol.rs : JitterBuffer                                 *)
(* Each subsystem has its own specification (SpecChannel, SpecKeys, ...);  *)
(* the variables of the other subsystems stay at their initial values.     *)
(***************************************************************************)
EXTENDS Integers, Sequences, FiniteSets, TLC

VARIABLES
    now,            \* the monotonic clock read by Instant::now(), in seconds
    channel,        \* one EncryptedChannel
    ch_out,         \* every EncryptedMessage returned by channel.encrypt, in order
    ch_accepted,    \* history: how often channel.decrypt returned Ok for ch_out[i]
                    \* (counted up to MaxCount)
    ch_last,        \* outcome of the last call on the channel
    ch_first,       \* history: when channel.decrypt first returned Ok for ch_out[i]
                    \* (-1: not yet)
    ch_forged,      \* history: the counters of the forged messages the channel
                    \* was given since it holds its current key
    keys_minted,    \* number of SessionKey values minted so far (fresh key bytes)
    rooms,          \* SessionKeyManager.rooms: room id -> RoomKeys (or None)
    rotation_interval, \* SessionKeyManager.rotation_interval
    mgr_out,        \* every [room, msg] returned by manager.encrypt, in order
    mgr_accepted,   \* history: how often manager.decrypt returned Ok for mgr_out[i]
    mgr_last,       \* outcome of the last call on the manager
    last_rotation,  \* history: the latest rotation of each room
    rotations,      \* history: the rotations of each room since its create_room
    mixer,          \* one MixerManager
    mx_last,        \* the last call on the MixerManager
    ice,            \* one IceAgent
    ice_run,        \* the perform_connectivity_checks call in progress, if any
    jitter,         \* one JitterBuffer
    jb_pushed,      \* history: the packets pushed since new or clear, in order
    jb_pops,        \* history: the pops since new or clear made at a depth above 0
    jb_last,        \* the last call on the JitterBuffer and what it returned
    noise,          \* the two NoiseSessions of one handshake: initiator, responder
    noise_sent,     \* every message a session has written, in order
    noise_last,     \* the last call on a NoiseSession and its outcome
    punch,          \* one TcpHolePuncher and its punch() call: position, counters, result
    audio,          \* one AudioPipeline, its two rings, its channels and backend thread
    audio_last,     \* the last call on the AudioPipeline and its outcome
    signaling,      \* the SignalingState of the signaling server: rooms and peers
    sig_added,      \* history: <<connection, room, peer id>> for every room entry a
                    \* connection's Join has added and nothing has removed since
    sig_last        \* the last message handled by the server and whom it notified

chanVars == <<channel, ch_out, ch_accepted, ch_last, keys_minted, ch_first, ch_forged>>
keyVars == <<rooms, rotation_interval, mgr_out, mgr_accepted, mgr_last, last_rotation,
            rotations>>
mixVars == <<mixer, mx_last>>
iceVars == <<ice, ice_run>>
jitVars == <<jitter, jb_pushed, jb_pops, jb_last>>
noiseVars == <<noise, noise_sent, noise_last>>
punchVars == <<punch>>
audioVars == <<audio, audio_last>>
sigVars == <<signaling, sig_added, sig_last>>
vars == <<now, chanVars, keyVars, mixVars, iceVars, jitVars, noiseVars, punchVars, audioVars, sigVars>>

(***************************************************************************)
(* Bounds of the model                                                     *)
(***************************************************************************)
MaxSends == 2
MaxChannelKeys == 2

\* the instants (seconds) at which calls are made: each multiple of the replay
\* horizon and of the rotation interval, and one second after it
TimePoints == {0, 1, 300, 301, 600, 601, 3600, 3601}

\* lifetimes a caller passes to SessionKey::with_expiry
ExpiryChoices == {3600, 10}

(***************************************************************************)
(* Program constants                                                       *)
(***************************************************************************)
DEFAULT_EXPIRY_SECS == 3600
REPLAY_RETENTION_SECS == 300

\* Option<T>: None is the empty sequence, Some(x) the one-element sequence
None == << >>
Some(x) == <<x>>
Unwrap(o) == o[1]

\* history counters saturate here
MaxCount == 2
CountUp(n) == IF n < MaxCount THEN n + 1 ELSE n

(***************************************************************************)
(* SessionKey                                                              *)
(***************************************************************************)
\* SessionKey::with_expiry: key bytes, creation instant, lifetime
SessionKey_with_expiry(bytes, t, expires_after) ==
    [key |-> bytes, created_at |-> t, expires_after |-> expires_after]

\* SessionKey::new: the default lifetime of one hour
SessionKey_new(bytes, t) == SessionKey_with_expiry(bytes, t, DEFAULT_EXPIRY_SECS)

\* SessionKey::is_expired at clock reading t: created_at.elapsed() > expires_after
is_expired(k, t) == t - k.created_at > k.expires_after

(***************************************************************************)
(* Nonce layout and the AEAD cipher                                        *)
(***************************************************************************)
RECURSIVE ShiftRightBytes(_, _)
ShiftRightBytes(c, n) == IF n = 0 THEN c ELSE ShiftRightBytes(c \div 256, n - 1)

\* u64::to_le_bytes
to_le_bytes(c) == [i \in 1..8 |-> ShiftRightBytes(c, i - 1) % 256]

RECURSIVE from_le_bytes(_)
\* u64::from_le_bytes
from_le_bytes(b) ==
    IF Len(b) = 0 THEN 0 ELSE Head(b) + 256 * from_le_bytes(Tail(b))

\* derive_nonce: 4 zero bytes followed by the little-endian counter
derive_nonce(counter) == <<0, 0, 0, 0>> \o to_le_bytes(counter)

\* extract_counter: bytes 4..12 of the nonce read as little-endian u64
extract_counter(nonce) == from_le_bytes(SubSeq(nonce, 5, 12))

\* ChaCha20-Poly1305 encryption: a deterministic function of key, nonce and
\* plaintext, injective in each of them
cipher_encrypt(key, nonce, plaintext) == [k |-> key, n |-> nonce, p |-> plaintext]

\* ChaCha20-Poly1305 decryption verifies the tag: it succeeds exactly on a
\* ciphertext produced under the same key and nonce
cipher_decrypt_ok(key, nonce, ciphertext) == ciphertext.k = key /\ ciphertext.n = nonce

\* the plaintext a verified ciphertext decrypts to
cipher_decrypt(ciphertext) == ciphertext.p

EncryptedMessage_new(nonce, ciphertext) == [nonce |-> nonce, ciphertext |-> ciphertext]

\* HashMap::insert on the replay set
MapInsert(m, k, v) == [x \in DOMAIN m \cup {k} |-> IF x = k THEN v ELSE m[x]]

EmptyMap == [x \in {} |-> 0]

\* a cleanup that retains only the entries recorded at the very instant
cleanup_old_counters_Instant(recv, t) ==
    [c \in {x \in DOMAIN recv : recv[x] >= t} |-> recv[c]]

\* cleanup_old_counters: retain the entries recorded after now - 300 s
cleanup_old_counters(recv, t) ==
    LET cutoff == t - REPLAY_RETENTION_SECS
    IN  [c \in {x \in DOMAIN recv : recv[x] > cutoff} |-> recv[c]]

(***************************************************************************)
(* EncryptedChannel                                                        *)
(***************************************************************************)
\* EncryptedChannel::new
EncryptedChannel_new(session_key) ==
    [session_key |-> session_key, send_counter |-> 0, recv_counters |-> EmptyMap]

\* EncryptedChannel::encrypt, mutated: the send counter is not advanced
EncryptedChannel_encrypt_NoIncrement(ch, plaintext, t) ==
    IF is_expired(ch.session_key, t)
    THEN [res |-> "expired", ch |-> ch, msg |-> None]
    ELSE LET nonce == derive_nonce(ch.send_counter)
         IN  [res |-> "ok", ch |-> ch,
              msg |-> EncryptedMessage_new(nonce,
                          cipher_encrypt(ch.session_key.key, nonce, plaintext))]

\* EncryptedChannel::encrypt
EncryptedChannel_encrypt(ch, plaintext, t) ==
    IF is_expired(ch.session_key, t)
    THEN [res |-> "expired", ch |-> ch, msg |-> None]
    ELSE LET nonce == derive_nonce(ch.send_counter)
         IN  [res |-> "ok",
              ch  |-> [ch EXCEPT !.send_counter = ch.send_counter + 1],
              msg |-> EncryptedMessage_new(nonce,
                          cipher_encrypt(ch.session_key.key, nonce, plaintext))]

\* a decrypt that records the counter before it verifies the tag
EncryptedChannel_decrypt_InsertFirst(ch, message, t) ==
    IF is_expired(ch.session_key, t)
    THEN [res |-> "expired", plaintext |-> None, ch |-> ch]
    ELSE LET counter == extract_counter(message.nonce)
             seen == [ch EXCEPT !.recv_counters =
                         cleanup_old_counters(MapInsert(ch.recv_counters, counter, t), t)]
         IN  IF counter \in DOMAIN ch.recv_counters
             THEN [res |-> "replay", plaintext |-> None, ch |-> ch]
             ELSE IF ~cipher_decrypt_ok(ch.session_key.key, message.nonce,
                                        message.ciphertext)
             THEN [res |-> "auth", plaintext |-> None, ch |-> seen]
             ELSE [res |-> "ok", plaintext |-> Some(cipher_decrypt(message.ciphertext)),
                   ch |-> seen]

\* EncryptedChannel::decrypt: the result, the plaintext returned with Ok and
\* the channel afterwards
EncryptedChannel_decrypt(ch, message, t) ==
    IF is_expired(ch.session_key, t)
    THEN [res |-> "expired", plaintext |-> None, ch |-> ch]
    ELSE LET counter == extract_counter(message.nonce)
         IN  IF counter \in DOMAIN ch.recv_counters
             THEN [res |-> "replay", plaintext |-> None, ch |-> ch]
             ELSE IF ~cipher_decrypt_ok(ch.session_key.key, message.nonce,
                                        message.ciphertext)
             THEN [res |-> "auth", plaintext |-> None, ch |-> ch]
             ELSE [res |-> "ok",
                   plaintext |-> Some(cipher_decrypt(message.ciphertext)),
                   ch  |-> [ch EXCEPT !.recv_counters =
                              cleanup_old_counters(
                                  MapInsert(ch.recv_counters, counter, t), t)]]

\* EncryptedChannel::rotate_key
EncryptedChannel_rotate_key(ch, new_key) ==
    [ch EXCEPT !.session_key = new_key,
               !.send_counter = 0,
               !.recv_counters = EmptyMap]

Plaintexts == {"p"}

(***************************************************************************)
(* SessionKeyManager                                                       *)
(***************************************************************************)
DEFAULT_KEY_ROTATION_INTERVAL == 3600

\* intervals a caller passes to with_rotation_interval
RotationIntervals == {300, DEFAULT_KEY_ROTATION_INTERVAL}

RoomIds == {"abc123"}

\* a room never rotates past this key id in the model
MaxKeyId == 3

\* SessionKeyInfo::new
SessionKeyInfo_new(id, key) ==
    [id |-> id, key |-> key, send_counter |-> 0, recv_counters |-> EmptyMap]

\* SessionKeyInfo::encrypt
SessionKeyInfo_encrypt(info, plaintext, t) ==
    IF is_expired(info.key, t)
    THEN [res |-> "expired", info |-> info, msg |-> None]
    ELSE LET nonce == derive_nonce(info.send_counter)
         IN  [res  |-> "ok",
              info |-> [info EXCEPT !.send_counter = info.send_counter + 1],
              msg  |-> EncryptedMessage_new(nonce,
                           cipher_encrypt(info.key.key, nonce, plaintext))]

\* SessionKeyInfo::decrypt
SessionKeyInfo_decrypt(info, message, t) ==
    IF is_expired(info.key, t)
    THEN [res |-> "expired", info |-> info]
    ELSE LET counter == extract_counter(message.nonce)
         IN  IF counter \in DOMAIN info.recv_counters
             THEN [res |-> "replay", info |-> info]
             ELSE IF ~cipher_decrypt_ok(info.key.key, message.nonce,
                                        message.ciphertext)
             THEN [res |-> "auth", info |-> info]
             ELSE [res  |-> "ok",
                   info |-> [info EXCEPT !.recv_counters =
                               cleanup_old_counters(
                                   MapInsert(info.recv_counters, counter, t), t)]]

\* HKDF-SHA256(ikm = current key, info = new id): deterministic, and distinct
\* for distinct inputs
hkdf_expand(ikm, info) == <<"hkdf", ikm, info>>

\* derive_new_key: the derived key lives for one rotation interval
derive_new_key(current_key, new_id, interval, t) ==
    SessionKey_with_expiry(hkdf_expand(current_key.key, new_id), t, interval)

\* SessionKeyManager::create_room
create_room(rs, room_id, initial_key, interval, t) ==
    [rs EXCEPT ![room_id] = Some(
        [current_key   |-> SessionKeyInfo_new(1, initial_key),
         previous_key  |-> None,
         next_rotation |-> t + interval])]

\* SessionKeyManager::encrypt on an existing room
manager_encrypt(room, plaintext, t) ==
    LET r == SessionKeyInfo_encrypt(room.current_key, plaintext, t)
    IN  [res |-> r.res, msg |-> r.msg,
         room |-> [room EXCEPT !.current_key = r.info]]

\* SessionKeyManager::decrypt on an existing room: the current key first, then
\* a previous key that has not expired
manager_decrypt(room, message, t) ==
    LET cur == SessionKeyInfo_decrypt(room.current_key, message, t)
    IN  IF cur.res = "ok"
        THEN [res |-> "ok", via |-> "current",
              room |-> [room EXCEPT !.current_key = cur.info]]
        ELSE IF room.previous_key # None
                /\ ~is_expired(Unwrap(room.previous_key).key, t)
        THEN LET prev == SessionKeyInfo_decrypt(Unwrap(room.previous_key), message, t)
             IN  [res |-> prev.res, via |-> "previous",
                  room |-> [room EXCEPT !.previous_key = Some(prev.info)]]
        ELSE [res |-> "all_keys_failed", via |-> "none", room |-> room]

\* SessionKeyManager::rotate_room_key
\* a rotation that reuses the id of the outgoing key
rotate_room_key_SameId(room, interval, t) ==
    LET new_key == derive_new_key(room.current_key.key, room.current_key.id, interval, t)
    IN  [room  |-> [current_key   |-> SessionKeyInfo_new(room.current_key.id, new_key),
                    previous_key  |-> Some(room.current_key),
                    next_rotation |-> t + interval],
         event |-> [new_key_id |-> room.current_key.id,
                    previous_key_id |-> room.current_key.id]]

rotate_room_key(room, interval, t) ==
    LET new_key_id == room.current_key.id + 1
        new_key == derive_new_key(room.current_key.key, new_key_id, interval, t)
    IN  [room  |-> [current_key   |-> SessionKeyInfo_new(new_key_id, new_key),
                    previous_key  |-> Some(room.current_key),
                    next_rotation |-> t + interval],
         event |-> [new_key_id |-> new_key_id,
                    previous_key_id |-> room.current_key.id]]

\* the rooms check_rotation rotates: those whose scheduled instant has passed
rooms_to_rotate(rs, t) ==
    {r \in RoomIds : rs[r] # None /\ t >= Unwrap(rs[r]).next_rotation}

\* the shortest time a message is in flight in the model (seconds)
IN_FLIGHT_SECS == 1

NoRotation ==
    [kind |-> "none", at |-> 0, live |-> FALSE, lasting |-> FALSE, on_time |-> FALSE]

\* what a rotation of this room at t is recorded as: whether the outgoing key
\* was unexpired then, whether its own lifetime outlasts the in-flight time, and
\* whether t is the scheduled instant
RotationRecord(kind, room, t) ==
    [kind |-> kind, at |-> t,
     live |-> ~is_expired(room.current_key.key, t),
     lasting |-> ~is_expired(room.current_key.key, t + IN_FLIGHT_SECS),
     on_time |-> (t = room.next_rotation)]

(***************************************************************************)
(* MixerManager                                                            *)
(***************************************************************************)
FULL_MESH_MAX_PARTICIPANTS == 5
MIXER_ROTATION_INTERVAL == 1800

\* peer ids are numbered in their lexicographic order: id 1 is the smallest
NumPeers == 6
PeerIds == 1..NumPeers

\* the local peer is the smallest id, or there is a smaller remote id
LocalIds == {1, 2}

\* the peers whose statistics are reported through update_participant_stats
StatsPeers == 1..3

\* values of MixerConfig.full_mesh_threshold
Thresholds == {2, FULL_MESH_MAX_PARTICIPANTS}

\* ParticipantStats::new
ParticipantStats_new ==
    [bandwidth_bps |-> 0, latency_variance |-> 0, cpu_usage_percent |-> 0,
     memory_usage_percent |-> 0, session_duration |-> 0]

\* stats a caller reports through update_participant_stats
StatsChoices ==
    { ParticipantStats_new,
      [bandwidth_bps |-> 10000000, latency_variance |-> 0, cpu_usage_percent |-> 0,
       memory_usage_percent |-> 0, session_duration |-> 3600],
      [bandwidth_bps |-> 10000000, latency_variance |-> 0, cpu_usage_percent |-> 10,
       memory_usage_percent |-> 20, session_duration |-> 3600] }

Min2(a, b) == IF a <= b THEN a ELSE b
Max2(a, b) == IF a >= b THEN a ELSE b

RECURSIVE ISqrtFrom(_, _)
ISqrtFrom(v, r) == IF (r + 1) * (r + 1) > v THEN r ELSE ISqrtFrom(v, r + 1)
\* f32::sqrt, rounded down
ISqrt(v) == ISqrtFrom(v, 0)

\* subscores are in units of 1/10000, total scores in units of 1/1000000

\* calculate_bandwidth_score: bandwidth / 10 Mbps, at most 1
calculate_bandwidth_score(stats) == Min2(stats.bandwidth_bps \div 1000, 10000)

\* ParticipantStats::get_stability_score
get_stability_score(stats) ==
    IF stats.latency_variance = 0 THEN 10000
    ELSE 1000000 \div (100 + ISqrt(stats.latency_variance))

\* calculate_resource_score
calculate_resource_score(stats) ==
    (  (100 - Min2(stats.cpu_usage_percent, 100))
     + (100 - Min2(stats.memory_usage_percent, 100))) * 50

\* calculate_duration_score: (duration / 1 h) squared, at most 1
calculate_duration_score(stats) ==
    LET normalized == stats.session_duration \div 36
    IN  Min2(normalized * normalized, 10000)

\* ScoreWeights::default, in percent
ScoreWeights_default == [bandwidth |-> 40, stability |-> 25, resources |-> 20, duration |-> 15]

\* Participant::calculate_score
calculate_score(stats, weights) ==
      calculate_bandwidth_score(stats) * weights.bandwidth
    + get_stability_score(stats) * weights.stability
    + calculate_resource_score(stats) * weights.resources
    + calculate_duration_score(stats) * weights.duration

\* SCORE_TIE_THRESHOLD = 0.05, in percent
SCORE_TIE_THRESHOLD == 5
\* the floor 0.001 of the tie test's denominator, in units of 1/1000000
SCORE_EPSILON == 1000

\* Participant::new
Participant_new == [role |-> "Peer", stats |-> ParticipantStats_new]

\* MixerManager::new
MixerManager_new(local_peer_id, threshold) ==
    [config |-> [full_mesh_threshold |-> threshold,
                 rotation_interval |-> MIXER_ROTATION_INTERVAL,
                 score_weights |-> ScoreWeights_default],
     participants |-> EmptyMap,
     local_peer_id |-> local_peer_id,
     local_role |-> "Peer",
     current_mixer |-> None,
     mixer_start_time |-> None,
     topology_mode |-> "FullMesh",
     pending_rotation |-> FALSE]

\* the (peer id, score) list select_mixer builds: every remote participant and
\* the local peer, the local peer scored from fresh default statistics
all_scores(m) ==
    [id \in DOMAIN m.participants \cup {m.local_peer_id} |->
        IF id \in DOMAIN m.participants
        THEN calculate_score(m.participants[id].stats, m.config.score_weights)
        ELSE calculate_score(ParticipantStats_new, m.config.score_weights)]

\* the score of the first element after the descending sort
TopScore(sc) == CHOOSE x \in {sc[i] : i \in DOMAIN sc} : \A i \in DOMAIN sc : sc[i] <= x

\* the score of the second element after the descending sort
SecondScore(sc) ==
    LET top == TopScore(sc)
        first == CHOOSE i \in DOMAIN sc : sc[i] = top
        rest == {sc[i] : i \in DOMAIN sc \ {first}}
    IN  CHOOSE x \in rest : \A y \in rest : y <= x

\* resolve_tie, mutated: the largest id wins
resolve_tie_Largest(sc) == CHOOSE i \in DOMAIN sc : \A j \in DOMAIN sc : j <= i

\* resolve_tie: the lexicographically smallest id of the whole candidate list
resolve_tie(sc) == CHOOSE i \in DOMAIN sc : \A j \in DOMAIN sc : i <= j

\* set_mixer
set_mixer(m, peer_id, t) ==
    LET demoted ==
            IF m.current_mixer # None /\ Unwrap(m.current_mixer) \in DOMAIN m.participants
            THEN [m.participants EXCEPT ![Unwrap(m.current_mixer)].role = "Peer"]
            ELSE m.participants
        is_local == peer_id = m.local_peer_id
    IN  [m EXCEPT
           !.current_mixer = Some(peer_id),
           !.mixer_start_time = Some(t),
           !.local_role = IF is_local THEN "Mixer" ELSE m.local_role,
           !.participants =
               IF ~is_local /\ peer_id \in DOMAIN demoted
               THEN [demoted EXCEPT ![peer_id].role = "Mixer"]
               ELSE demoted]

\* the tie test, mutated: only equal scores tie
is_tie_Exact(top, second) == top = second

\* the tie test of select_mixer: (top - second) / max(top, 0.001) < 5 %
is_tie(top, second) ==
    (top - second) * 100 < SCORE_TIE_THRESHOLD * Max2(top, SCORE_EPSILON)

\* select_mixer
select_mixer(m, t) ==
    IF m.topology_mode # "SFU"
    THEN [m EXCEPT !.current_mixer = None]
    ELSE LET sc == all_scores(m)
             top == TopScore(sc)
         IN  IF Cardinality(DOMAIN sc) >= 2 /\ is_tie(top, SecondScore(sc))
             THEN set_mixer(m, resolve_tie(sc), t)
             ELSE set_mixer(m, CHOOSE i \in DOMAIN sc : sc[i] = top, t)

\* update_topology_mode, mutated: the comparison with the threshold is strict
update_topology_mode_Strict(m, t) ==
    LET count == Cardinality(DOMAIN m.participants) + 1
        new_mode == IF count < m.config.full_mesh_threshold THEN "FullMesh" ELSE "SFU"
    IN  IF new_mode # m.topology_mode
        THEN LET m2 == [m EXCEPT !.topology_mode = new_mode]
             IN  IF new_mode = "SFU" /\ m2.current_mixer = None
                 THEN select_mixer(m2, t)
                 ELSE m2
        ELSE m

\* update_topology_mode, mutated: no mixer is selected on entering SFU
update_topology_mode_NoSelect(m, t) ==
    LET count == Cardinality(DOMAIN m.participants) + 1
        new_mode == IF count <= m.config.full_mesh_threshold THEN "FullMesh" ELSE "SFU"
    IN  IF new_mode # m.topology_mode
        THEN [m EXCEPT !.topology_mode = new_mode]
        ELSE m

\* update_topology_mode
update_topology_mode(m, t) ==
    LET count == Cardinality(DOMAIN m.participants) + 1
        new_mode == IF count <= m.config.full_mesh_threshold THEN "FullMesh" ELSE "SFU"
    IN  IF new_mode # m.topology_mode
        THEN LET m2 == [m EXCEPT !.topology_mode = new_mode]
             IN  IF new_mode = "SFU" /\ m2.current_mixer = None
                 THEN select_mixer(m2, t)
                 ELSE m2
        ELSE m

\* add_participant
add_participant(m, peer_id, t) ==
    update_topology_mode(
        [m EXCEPT !.participants = MapInsert(m.participants, peer_id, Participant_new)], t)

\* HashMap::remove
MapRemove(f, k) == [x \in DOMAIN f \ {k} |-> f[x]]

\* remove_participant, mutated: a departing mixer is not replaced
remove_participant_KeepsMixer(m, peer_id, t) ==
    update_topology_mode([m EXCEPT !.participants = MapRemove(m.participants, peer_id)], t)

\* remove_participant
remove_participant(m, peer_id, t) ==
    LET m1 == [m EXCEPT !.participants = MapRemove(m.participants, peer_id)]
        m2 == IF m1.current_mixer = Some(peer_id)
              THEN select_mixer([m1 EXCEPT !.current_mixer = None], t)
              ELSE m1
    IN  update_topology_mode(m2, t)

\* update_participant_stats
update_participant_stats(m, peer_id, stats) ==
    IF peer_id \in DOMAIN m.participants
    THEN [m EXCEPT !.participants[peer_id].stats = stats]
    ELSE m

\* rotate_mixer
rotate_mixer(m, t) ==
    LET zeroed ==
            IF m.current_mixer # None /\ Unwrap(m.current_mixer) \in DOMAIN m.participants
            THEN [m EXCEPT !.participants[Unwrap(m.current_mixer)].stats.session_duration = 0]
            ELSE m
    IN  select_mixer([zeroed EXCEPT !.pending_rotation = FALSE], t)

\* is_mixer
is_mixer(m) == m.local_role = "Mixer"

\* get_participant_count
get_participant_count(m) == Cardinality(DOMAIN m.participants) + 1

\* check_rotation, mutated: the interval has to be exceeded
check_rotation_Strict(m, t) ==
    IF m.topology_mode # "SFU"
    THEN [res |-> FALSE, m |-> m]
    ELSE IF m.mixer_start_time = None
    THEN [res |-> FALSE, m |-> m]
    ELSE IF t - Unwrap(m.mixer_start_time) > m.config.rotation_interval
    THEN [res |-> TRUE, m |-> [m EXCEPT !.pending_rotation = TRUE]]
    ELSE [res |-> FALSE, m |-> m]

\* check_rotation: the value returned and the manager after the call
check_rotation(m, t) ==
    IF m.topology_mode # "SFU"
    THEN [res |-> FALSE, m |-> m]
    ELSE IF m.mixer_start_time = None
    THEN [res |-> FALSE, m |-> m]
    ELSE IF t - Unwrap(m.mixer_start_time) >= m.config.rotation_interval
    THEN [res |-> TRUE, m |-> [m EXCEPT !.pending_rotation = TRUE]]
    ELSE [res |-> FALSE, m |-> m]

\* get_connection_targets, mutated: the mixer is returned even when it is the
\* local peer
get_connection_targets_NoFilter(m) ==
    IF m.topology_mode = "FullMesh"
    THEN DOMAIN m.participants
    ELSE {m.current_mixer[i] : i \in DOMAIN m.current_mixer}

\* get_connection_targets: the peer ids returned, as a set (the order of the
\* Vec follows the HashMap's iteration order)
get_connection_targets(m) ==
    IF m.topology_mode = "FullMesh"
    THEN DOMAIN m.participants
    ELSE {m.current_mixer[i] : i \in DOMAIN m.current_mixer} \ {m.local_peer_id}

(***************************************************************************)
(* IceAgent                                                                *)
(***************************************************************************)
\* ICE_CONNECTIVITY_TIMEOUT, ICE_CHECK_INTERVAL and the receive timeout of one
\* connectivity check, in milliseconds
ICE_CONNECTIVITY_TIMEOUT == 5000
ICE_CHECK_INTERVAL == 50
CHECK_RECV_TIMEOUT == 500

\* the component id of IceAgent::new
DEFAULT_COMPONENT_ID == 1

\* bounds on the candidates an agent collects
MaxLocal == 2
MaxRemote == 2

\* values of IceConfig.connectivity_timeout
ConnectivityTimeouts == {CHECK_RECV_TIMEOUT, ICE_CONNECTIVITY_TIMEOUT}

\* values of IceConfig.nomination_mode
NominationModes == {"Aggressive", "Regular"}

\* how long one connectivity check takes: an immediate answer or bind error,
\* or the full receive timeout
CheckDurations == {0, CHECK_RECV_TIMEOUT}

\* socket addresses: the host addresses a gathering binds, the public address
\* a STUN server reports, and the addresses of the remote candidates
HostAddrs == {<<"10.0.0.1", 5001>>, <<"10.0.0.1", 5002>>}
PublicAddr == <<"203.0.113.1", 6000>>
RemoteHostAddr == <<"192.0.2.1", 7000>>
RemotePublicAddr == <<"198.51.100.1", 8000>>
RemoteRelayAddr == <<"198.51.100.9", 9000>>
TurnServerAddr == <<"198.51.100.9", 3478>>

\* the type preference of Candidate::calculate_priority
type_pref(candidate_type) ==
    CASE candidate_type = "Host" -> 126
      [] candidate_type = "PeerReflexive" -> 110
      [] candidate_type = "ServerReflexive" -> 100
      [] candidate_type = "Relayed" -> 0

\* Candidate::calculate_priority
calculate_priority(candidate_type, local_pref, component_id) ==
    (2^24) * type_pref(candidate_type) + (2^8) * local_pref + 256 - component_id

\* Candidate::new_host
Candidate_new_host(addr, component_id) ==
    [foundation |-> <<"host", addr>>,
     component_id |-> component_id,
     transport |-> "Udp",
     priority |-> calculate_priority("Host", 0, component_id),
     connection_addr |-> addr,
     base_addr |-> addr,
     candidate_type |-> "Host",
     related_addr |-> None]

\* Candidate::new_server_reflexive
Candidate_new_server_reflexive(public_addr, base_addr, component_id) ==
    [foundation |-> <<"srflx", public_addr>>,
     component_id |-> component_id,
     transport |-> "Udp",
     priority |-> calculate_priority("ServerReflexive", 0, component_id),
     connection_addr |-> public_addr,
     base_addr |-> base_addr,
     candidate_type |-> "ServerReflexive",
     related_addr |-> Some(base_addr)]

\* Candidate::new_relayed
Candidate_new_relayed(relay_addr, server_addr, component_id) ==
    [foundation |-> <<"relay", relay_addr>>,
     component_id |-> component_id,
     transport |-> "Udp",
     priority |-> calculate_priority("Relayed", 0, component_id),
     connection_addr |-> relay_addr,
     base_addr |-> server_addr,
     candidate_type |-> "Relayed",
     related_addr |-> Some(server_addr)]

\* the candidates the remote peer signals
RemoteChoices ==
    { Candidate_new_host(RemoteHostAddr, DEFAULT_COMPONENT_ID),
      Candidate_new_server_reflexive(RemotePublicAddr, RemoteHostAddr, DEFAULT_COMPONENT_ID),
      Candidate_new_relayed(RemoteRelayAddr, TurnServerAddr, DEFAULT_COMPONENT_ID) }

\* a u64 is four 16-bit limbs, least significant first
LIMB == 65536
U64_from_u32(v) == <<v % LIMB, v \div LIMB, 0, 0>>

\* u64 addition, wrapping at 2^64
U64_add(a, b) ==
    LET s1 == a[1] + b[1]
        s2 == a[2] + b[2] + (s1 \div LIMB)
        s3 == a[3] + b[3] + (s2 \div LIMB)
        s4 == a[4] + b[4] + (s3 \div LIMB)
    IN  <<s1 % LIMB, s2 % LIMB, s3 % LIMB, s4 % LIMB>>

\* 2^32 * v for a u64 v, wrapping at 2^64
U64_shl32(a) == <<0, 0, a[1], a[2]>>

\* the comparison a >= b of two u64
U64_ge(a, b) ==
    \/ a[4] > b[4]
    \/ a[4] = b[4] /\ a[3] > b[3]
    \/ a[4] = b[4] /\ a[3] = b[3] /\ a[2] > b[2]
    \/ a[4] = b[4] /\ a[3] = b[3] /\ a[2] = b[2] /\ a[1] >= b[1]

\* CandidatePair::calculate_pair_priority:
\* 2^32 * min(g, d) + 2 * max(g, d) + (max(g, d) - min(g, d))
calculate_pair_priority(local, remote) ==
    LET g == IF local.priority >= remote.priority THEN local.priority ELSE remote.priority
        d == IF local.priority >= remote.priority THEN remote.priority ELSE local.priority
        lo == Min2(g, d)
        hi == Max2(g, d)
    IN  U64_add(U64_add(U64_shl32(U64_from_u32(lo)),
                        U64_add(U64_from_u32(hi), U64_from_u32(hi))),
                U64_from_u32(hi - lo))

\* CandidatePair::new (last_check and round_trip_time, which nothing reads,
\* are left out)
CandidatePair_new(local, remote) ==
    [local |-> local,
     remote |-> remote,
     priority |-> calculate_pair_priority(local, remote),
     state |-> "Frozen",
     nominated |-> FALSE]

\* IceAgent::new
IceAgent_new(nomination_mode, connectivity_timeout) ==
    [config |-> [connectivity_timeout |-> connectivity_timeout,
                 nomination_mode |-> nomination_mode],
     local_candidates |-> << >>,
     remote_candidates |-> << >>,
     candidate_pairs |-> << >>,
     checklist |-> << >>,
     selected_pair |-> None,
     state |-> "New",
     component_id |-> DEFAULT_COMPONENT_ID]

\* inserting one pair behind every pair of at least its priority: one step of
\* the stable descending sort
InsertByPriority(sorted, p) ==
    LET k == Cardinality({i \in 1..Len(sorted) : U64_ge(sorted[i].priority, p.priority)})
    IN  SubSeq(sorted, 1, k) \o <<p>> \o SubSeq(sorted, k + 1, Len(sorted))

\* sort_pairs_by_priority: Vec::sort_by, stable, highest priority first
RECURSIVE sort_pairs_by_priority(_)
sort_pairs_by_priority(pairs) ==
    IF Len(pairs) = 0 THEN << >>
    ELSE InsertByPriority(sort_pairs_by_priority(SubSeq(pairs, 1, Len(pairs) - 1)),
                          pairs[Len(pairs)])

\* a checklist update that promotes every pair
update_checklist_AllWaiting(a) ==
    [a EXCEPT !.checklist = [i \in 1..Len(a.candidate_pairs) |->
                                [a.candidate_pairs[i] EXCEPT !.state = "Waiting"]],
              !.state = IF a.state = "New" /\ Len(a.candidate_pairs) > 0
                        THEN "Checking" ELSE a.state]

\* update_checklist
update_checklist(a) ==
    LET cp == a.candidate_pairs
        list == [i \in 1..Len(cp) |->
                    IF \A j \in 1..(i - 1) : cp[j].local.foundation # cp[i].local.foundation
                    THEN [cp[i] EXCEPT !.state = "Waiting"]
                    ELSE cp[i]]
    IN  [a EXCEPT !.checklist = list,
                  !.state = IF a.state = "New" /\ Len(list) > 0 THEN "Checking" ELSE a.state]

\* form_candidate_pairs
form_candidate_pairs(a) ==
    LET nl == Len(a.local_candidates)
        nr == Len(a.remote_candidates)
        all == [k \in 1..(nl * nr) |->
                   CandidatePair_new(a.local_candidates[((k - 1) \div nr) + 1],
                                     a.remote_candidates[((k - 1) % nr) + 1])]
        exists(pair) ==
            \E i \in 1..Len(a.candidate_pairs) :
                /\ a.candidate_pairs[i].local.connection_addr = pair.local.connection_addr
                /\ a.candidate_pairs[i].remote.connection_addr = pair.remote.connection_addr
        new_pairs == SelectSeq(all, LAMBDA pair : ~exists(pair))
    IN  update_checklist(
            [a EXCEPT !.candidate_pairs = sort_pairs_by_priority(a.candidate_pairs \o new_pairs)])

\* the elements of a sequence
Range(s) == {s[i] : i \in 1..Len(s)}

\* add_remote_candidate
add_remote_candidate(a, candidate) ==
    IF candidate \notin Range(a.remote_candidates)
    THEN form_candidate_pairs(
             [a EXCEPT !.remote_candidates = Append(a.remote_candidates, candidate)])
    ELSE a

\* find_base_address: the first host candidate (every host address of the
\* model is a routable IPv4 address)
find_base_address(locals) ==
    LET hosts == SelectSeq(locals, LAMBDA c : c.candidate_type = "Host")
    IN  IF Len(hosts) > 0 THEN Some(hosts[1].connection_addr) ELSE None

\* gather_candidates with no TURN server configured: a host candidate for each
\* address bound, a server reflexive candidate for each STUN server that
\* answered, then form_candidate_pairs
gather_candidates(a, bound_addrs, stun_answers) ==
    LET hosts == [i \in 1..Len(bound_addrs) |->
                     Candidate_new_host(bound_addrs[i], a.component_id)]
        with_hosts == a.local_candidates \o hosts
        base == find_base_address(with_hosts)
        srflx == IF base = None THEN << >>
                 ELSE [i \in 1..Len(stun_answers) |->
                          Candidate_new_server_reflexive(stun_answers[i], Unwrap(base),
                                                         a.component_id)]
    IN  form_candidate_pairs([a EXCEPT !.local_candidates = with_hosts \o srflx])

\* the checklist indices perform_connectivity_checks collects at the top of an
\* iteration: the pairs Waiting or InProgress, in checklist order
pending_pairs(a) ==
    LET idx == [i \in 1..Len(a.checklist) |-> i]
    IN  SelectSeq(idx, LAMBDA i : a.checklist[i].state \in {"Waiting", "InProgress"})

\* a nomination that marks the pair and leaves the selected pair alone
nominate_pair_FlagOnly(a, idx) ==
    IF idx \in 1..Len(a.checklist)
    THEN [a EXCEPT !.checklist[idx].nominated = TRUE]
    ELSE a

\* nominate_pair
nominate_pair(a, idx) ==
    IF idx \in 1..Len(a.checklist)
    THEN LET pair == [a.checklist[idx] EXCEPT !.nominated = TRUE]
         IN  [a EXCEPT !.checklist[idx] = pair, !.selected_pair = Some(pair)]
    ELSE a

\* finalize_selection
finalize_selection(a) ==
    LET idx == [i \in 1..Len(a.checklist) |-> i]
        succeeded_pairs == SelectSeq(idx, LAMBDA i : a.checklist[i].state = "Succeeded")
    IN  IF Len(succeeded_pairs) = 0
        THEN [res |-> "err", agent |-> [a EXCEPT !.state = "Failed"]]
        ELSE [res |-> "ok",
              agent |-> [a EXCEPT
                  !.selected_pair =
                      IF a.selected_pair = None
                      THEN Some(a.checklist[succeeded_pairs[1]])
                      ELSE a.selected_pair,
                  !.state = "Connected"]]

\* get_selected_connection
get_selected_connection(a) ==
    IF a.selected_pair = None
    THEN None
    ELSE Some(<<Unwrap(a.selected_pair).local.base_addr,
                Unwrap(a.selected_pair).remote.connection_addr>>)

\* the position of a perform_connectivity_checks call: no call in progress.
\* just_ok is the checklist index of the pair whose check succeeded in the
\* step just taken (0 when the step just taken was anything else)
IceRunIdle ==
    [pc |-> "idle", pending |-> << >>, elapsed |-> 0, nominations |-> 0,
     res |-> "none", just_ok |-> 0]

(***************************************************************************)
(* JitterBuffer                                                            *)
(***************************************************************************)
AUDIO_FRAME_SIZE == 960
JITTER_MIN_SLOTS == 5
JITTER_MAX_SLOTS == 50
SAMPLE_RATE == 48000

\* the pushes made on one buffer between two clears
MaxPushes == 7

\* target delays in ms: below the smallest ring, the ring of the tests (5
\* slots) and a ring of 6 slots
TargetDelays == {20, 100, 120}

\* AudioPacket::new, reduced to the fields the buffer's callers compare
AudioPacket_new(sequence, peer_id) == [sequence |-> sequence, peer_id |-> peer_id]

\* JitterBuffer::new: ceil(target_delay_ms / 1000 * sample_rate / frame size),
\* clamped to 5..50 (the products of the model are exact in f64)
JitterBuffer_new(target_delay_ms, sample_rate) ==
    LET d == 1000 * AUDIO_FRAME_SIZE
        buffer_size == (target_delay_ms * sample_rate + d - 1) \div d
        clamped == Min2(Max2(buffer_size, JITTER_MIN_SLOTS), JITTER_MAX_SLOTS)
    IN  [frames |-> [i \in 1..clamped |-> None], write_idx |-> 0, read_idx |-> 0]

\* JitterBuffer::push (slot k of the Vec is frames[k + 1])
JitterBuffer_push(b, packet) ==
    LET len == Len(b.frames)
    IN  IF len = 0 THEN b
        ELSE [b EXCEPT !.frames[(b.write_idx % len) + 1] = Some(packet),
                       !.write_idx = b.write_idx + 1]

\* JitterBuffer::pop: the frame returned and the buffer afterwards
JitterBuffer_pop(b) ==
    IF b.write_idx <= b.read_idx
    THEN [frame |-> None, buf |-> b]
    ELSE LET idx == (b.read_idx % Len(b.frames)) + 1
         IN  [frame |-> b.frames[idx],
              buf |-> [b EXCEPT !.frames[idx] = None, !.read_idx = b.read_idx + 1]]

\* JitterBuffer::buffer_depth: write_idx.saturating_sub(read_idx)
buffer_depth(b) == IF b.write_idx >= b.read_idx THEN b.write_idx - b.read_idx ELSE 0

\* JitterBuffer::clear
JitterBuffer_clear(b) ==
    [frames |-> [i \in 1..Len(b.frames) |-> None], write_idx |-> 0, read_idx |-> 0]

(***************************************************************************)
(* NoiseSession (Noise_XX_25519_ChaChaPoly_BLAKE2s through the snow crate) *)
(***************************************************************************)
\* the number of messages of the XX pattern: -> e ; <- e, ee, s, es ; -> s, se
XX_MESSAGES == 3

\* transport messages one session encrypts
MaxNoiseSends == 2

\* static public keys: the initiator's, the responder's, and a key neither holds
InitiatorKey == "Ki"
ResponderKey == "Kr"
StrangerKey == "Kx"

\* bytes that no session has written
JunkBytes == [kind |-> "junk"]

\* NoiseSession::new_initiator / new_responder: snow's HandshakeState at the
\* first message of the pattern, the initiator's turn to write
NoiseSession_new(is_initiator, local_public_key) ==
    [handshake_state |-> Some([pattern_position |-> 0, my_turn |-> is_initiator,
                               rs |-> None]),
     transport |-> None,
     local_public_key |-> local_public_key,
     remote_public_key |-> None,
     is_initiator |-> is_initiator]

\* with_remote_public_key
with_remote_public_key(s, remote_public_key) ==
    [s EXCEPT !.remote_public_key = Some(remote_public_key)]

\* is_handshake_complete
is_handshake_complete(s) == s.transport # None

\* finalize_handshake: the handshake state is taken and becomes the transport
\* state, whose two nonces start at 0
finalize_handshake(s) ==
    [s EXCEPT !.handshake_state = None,
              !.transport = Some([send_n |-> 0, recv_n |-> 0])]

\* snow's is_handshake_finished
is_handshake_finished(hs) == hs.pattern_position = XX_MESSAGES

\* the static key a message of the pattern carries: the second message the
\* responder's, the third the initiator's
StaticOf(position, key) == IF position \in {1, 2} THEN Some(key) ELSE None

\* write_handshake_message, mutated: the transport state is entered one message
\* early
write_handshake_message_Early(s, payload) ==
    IF s.handshake_state = None
    THEN [res |-> "crypto", out |-> None, s |-> s]
    ELSE LET hs == Unwrap(s.handshake_state)
         IN  IF ~hs.my_turn
             THEN [res |-> "crypto", out |-> None, s |-> s]
             ELSE LET msg == [kind |-> "handshake", from_initiator |-> s.is_initiator,
                              n |-> hs.pattern_position,
                              s |-> StaticOf(hs.pattern_position, s.local_public_key),
                              payload |-> payload]
                      hs2 == [hs EXCEPT !.pattern_position = @ + 1, !.my_turn = FALSE]
                      s2 == [s EXCEPT !.handshake_state = Some(hs2)]
                  IN  [res |-> "ok", out |-> Some(msg),
                       s |-> IF hs2.pattern_position >= XX_MESSAGES - 1
                             THEN finalize_handshake(s2) ELSE s2]

\* write_handshake_message: the result, the bytes written and the session after
\* the call.  snow's write_message refuses when it is not this side's turn.
write_handshake_message(s, payload) ==
    IF s.handshake_state = None
    THEN [res |-> "crypto", out |-> None, s |-> s]
    ELSE LET hs == Unwrap(s.handshake_state)
         IN  IF ~hs.my_turn
             THEN [res |-> "crypto", out |-> None, s |-> s]
             ELSE LET msg == [kind |-> "handshake", from_initiator |-> s.is_initiator,
                              n |-> hs.pattern_position,
                              s |-> StaticOf(hs.pattern_position, s.local_public_key),
                              payload |-> payload]
                      hs2 == [hs EXCEPT !.pattern_position = @ + 1, !.my_turn = FALSE]
                      s2 == [s EXCEPT !.handshake_state = Some(hs2)]
                  IN  [res |-> "ok", out |-> Some(msg),
                       s |-> IF is_handshake_finished(hs2)
                             THEN finalize_handshake(s2) ELSE s2]

\* snow's read_message accepts the bytes: they are the peer's message for the
\* current position of the pattern (the transcript hash and the AEAD tag match)
TranscriptMatches(s, hs, message) ==
    /\ message.kind = "handshake"
    /\ message.from_initiator # s.is_initiator
    /\ message.n = hs.pattern_position

\* read_handshake_message, mutated: a call out of turn is let through
read_handshake_message_AnyTurn(s, message) ==
    IF s.handshake_state = None
    THEN [res |-> "crypto", out |-> None, s |-> s]
    ELSE LET hs == Unwrap(s.handshake_state)
         IN  IF message.kind # "handshake"
             THEN [res |-> "crypto", out |-> None, s |-> s]
             ELSE LET hs2 == [hs EXCEPT !.pattern_position = @ + 1, !.my_turn = TRUE,
                                        !.rs = IF message.s # None THEN message.s ELSE @]
                      s2 == [s EXCEPT !.handshake_state = Some(hs2),
                                      !.remote_public_key =
                                          IF hs2.rs # None THEN hs2.rs ELSE @]
                  IN  [res |-> "ok", out |-> Some(message.payload),
                       s |-> IF is_handshake_finished(hs2)
                             THEN finalize_handshake(s2) ELSE s2]

\* read_handshake_message: the result, the payload read and the session after
\* the call.  snow's read_message refuses when it is this side's turn to write.
read_handshake_message(s, message) ==
    IF s.handshake_state = None
    THEN [res |-> "crypto", out |-> None, s |-> s]
    ELSE LET hs == Unwrap(s.handshake_state)
         IN  IF hs.my_turn \/ ~TranscriptMatches(s, hs, message)
             THEN [res |-> "crypto", out |-> None, s |-> s]
             ELSE LET hs2 == [hs EXCEPT !.pattern_position = @ + 1, !.my_turn = TRUE,
                                        !.rs = IF message.s # None THEN message.s ELSE @]
                      s2 == [s EXCEPT !.handshake_state = Some(hs2),
                                      !.remote_public_key =
                                          IF hs2.rs # None THEN hs2.rs ELSE @]
                  IN  [res |-> "ok", out |-> Some(message.payload),
                       s |-> IF is_handshake_finished(hs2)
                             THEN finalize_handshake(s2) ELSE s2]

\* NoiseSession::encrypt
NoiseSession_encrypt(s, plaintext) ==
    IF s.transport = None
    THEN [res |-> "crypto", out |-> None, s |-> s]
    ELSE LET t == Unwrap(s.transport)
         IN  [res |-> "ok",
              out |-> Some([kind |-> "transport", from_initiator |-> s.is_initiator,
                            n |-> t.send_n, payload |-> plaintext]),
              s |-> [s EXCEPT !.transport = Some([t EXCEPT !.send_n = @ + 1])]]

\* NoiseSession::decrypt: snow's transport accepts the peer's ciphertext under
\* the next receiving nonce
NoiseSession_decrypt(s, ciphertext) ==
    IF s.transport = None
    THEN [res |-> "crypto", out |-> None, s |-> s]
    ELSE LET t == Unwrap(s.transport)
         IN  IF /\ ciphertext.kind = "transport"
                /\ ciphertext.from_initiator # s.is_initiator
                /\ ciphertext.n = t.recv_n
             THEN [res |-> "ok", out |-> Some(ciphertext.payload),
                   s |-> [s EXCEPT !.transport = Some([t EXCEPT !.recv_n = @ + 1])]]
             ELSE [res |-> "crypto", out |-> None, s |-> s]

\* the sessions before any call: new_initiator and new_responder, each either
\* left as built or told a remote key through with_remote_public_key
NoiseStart(preset_i, preset_r) ==
    [initiator |->
        IF preset_i THEN with_remote_public_key(NoiseSession_new(TRUE, InitiatorKey), StrangerKey)
        ELSE NoiseSession_new(TRUE, InitiatorKey),
     responder |->
        IF preset_r THEN with_remote_public_key(NoiseSession_new(FALSE, ResponderKey), StrangerKey)
        ELSE NoiseSession_new(FALSE, ResponderKey)]

\* the record of a call: its name, the session it was made on, its outcome and
\* whether that session found its handshake complete and its turn to write
NoiseCall(op, side, res, s) ==
    [op |-> op, side |-> side, res |-> res,
     complete |-> is_handshake_complete(s),
     my_turn |-> s.handshake_state # None /\ Unwrap(s.handshake_state).my_turn]

(***************************************************************************)
(* TcpHolePuncher                                                          *)
(***************************************************************************)
\* values of TcpHolePunchConfig.retry_count: 0 .. MaxRetry (the default is 3)
MaxRetry == 3

\* values of TcpHolePunchConfig.local_port
LocalPorts == {0, 5000}

\* the non-loopback interface addresses of the host
LocalInterfaces == <<"192.168.1.2">>

\* the endpoint lists the peer can announce through the signaling channel
PeerEndpointLists == {<< >>, <<"198.51.100.7:4000">>,
                      <<"198.51.100.7:4000", "10.0.0.7:4000">>}

\* get_local_endpoints
get_local_endpoints(config) ==
    IF config.local_port # 0
    THEN <<<<"0.0.0.0", config.local_port>>>>
         \o [i \in 1..Len(LocalInterfaces) |-> <<LocalInterfaces[i], config.local_port>>]
    ELSE <<<<"0.0.0.0", 0>>>>

\* TcpHolePuncher::new and the state of a punch() call that has not begun
TcpHolePuncher_new(config) ==
    [config |-> config,
     pc |-> "idle",
     announced |-> None,
     peer_endpoints |-> << >>,
     attempt |-> 0,
     opens |-> 0,
     opens_connected |-> 0,
     sweeps |-> 0,
     sequential_connects |-> 0,
     result |-> None]

\* the values punch() returns
PunchErr == [ok |-> FALSE]
TcpHolePunchResult(success, connected_addr, method) ==
    [ok |-> TRUE, success |-> success, connected_addr |-> connected_addr,
     method |-> method]

\* attempt_simultaneous_open: one task per peer endpoint; connected is the set
\* of endpoints whose bind_and_connect_async succeeds, winner the one of them
\* that join_next yields first
attempt_simultaneous_open(peer_endpoints, connected, winner) ==
    IF peer_endpoints = << >> THEN None
    ELSE IF connected = {} THEN None
    ELSE Some(peer_endpoints[winner])

\* attempt_sequential: the endpoints in order, up to the first that connects;
\* the stream, and the number of endpoints tried
attempt_sequential(peer_endpoints, connected) ==
    IF connected = {}
    THEN [stream |-> None, tried |-> Len(peer_endpoints)]
    ELSE LET first == CHOOSE i \in connected : \A j \in connected : i <= j
         IN  [stream |-> Some(peer_endpoints[first]), tried |-> first]

\* the entry of punch, mutated: a failed send_ready is ignored
punch_send_ready_IgnoresError(p, sent) ==
    [p EXCEPT !.pc = "sent_ready",
              !.announced = IF sent THEN Some(get_local_endpoints(p.config)) ELSE None]

\* the entry of punch: get_local_endpoints, send_ready
punch_send_ready(p, sent) ==
    IF sent
    THEN [p EXCEPT !.pc = "sent_ready", !.announced = Some(get_local_endpoints(p.config))]
    ELSE [p EXCEPT !.pc = "returned", !.result = Some(PunchErr)]

\* wait_for_peer_ready: the peer's endpoints, or an error (ready = None)
punch_wait_for_peer_ready(p, ready) ==
    IF ready = None
    THEN [p EXCEPT !.pc = "returned", !.result = Some(PunchErr)]
    ELSE [p EXCEPT !.pc = "ready", !.peer_endpoints = Unwrap(ready), !.attempt = 0]

\* one iteration of the retry loop, mutated: a connected socket does not end
\* the loop
punch_attempt_KeepsTrying(p, stream, peer_addr_ok) ==
    [p EXCEPT !.attempt = @ + 1,
              !.opens = @ + 1,
              !.opens_connected = IF stream # None THEN @ + 1 ELSE @]

\* one iteration of the retry loop of punch: a simultaneous-open attempt; a
\* connected socket ends the call, a failure goes on to the next iteration
punch_attempt(p, stream, peer_addr_ok) ==
    IF stream # None
    THEN [p EXCEPT !.pc = "returned",
                   !.opens = @ + 1,
                   !.opens_connected = @ + 1,
                   !.result = IF peer_addr_ok
                              THEN Some(TcpHolePunchResult(TRUE, stream, "SimultaneousOpen"))
                              ELSE Some(PunchErr)]
    ELSE [p EXCEPT !.attempt = @ + 1, !.opens = @ + 1]

\* the end of punch, after the retry loop: the sequential sweep and the result
punch_sequential(p, connected, peer_addr_ok) ==
    LET r == attempt_sequential(p.peer_endpoints, connected)
    IN  [p EXCEPT !.pc = "returned",
                  !.sweeps = @ + 1,
                  !.sequential_connects = @ + r.tried,
                  !.result =
                      IF r.stream = None
                      THEN Some(TcpHolePunchResult(FALSE, None, "Direct"))
                      ELSE IF peer_addr_ok
                      THEN Some(TcpHolePunchResult(TRUE, r.stream, "Sequential"))
                      ELSE Some(PunchErr)]

(***************************************************************************)
(* AudioPipeline and AudioBackend                                          *)
(***************************************************************************)
FRAME_SIZE == 960
\* the ring length, in frames, above which the input callback trims
RING_TRIM_FRAMES == 10
\* the recv_timeout of start() on the readiness channel, in seconds
READY_TIMEOUT_SECS == 5

\* the rings are followed up to this many frames
MaxRingFrames == 13
\* SetNoiseGate commands that can wait in the command channel
MaxCommands == 2

\* the number of samples the device hands to one stream callback
CallbackSizes == {FRAME_SIZE, 2 * FRAME_SIZE}

\* AudioPipeline::new, with the channels and the thread that start() creates:
\*   input_len, output_len : the lengths of input_buffer and output_buffer
\*   starting, waited      : start() is blocked in recv_timeout, for how long
\*   ready                 : the message in the readiness channel
\*   commands, tx_alive    : the command channel and whether a Sender is left
\*   thread, streams       : the backend thread and whether its streams exist
\*   acked                 : history: the thread of the last start() sent Ok(())
AudioPipeline_new ==
    [is_running |-> FALSE, command_tx |-> FALSE,
     input_len |-> 0, output_len |-> 0,
     starting |-> FALSE, waited |-> 0, ready |-> None,
     commands |-> << >>, tx_alive |-> FALSE,
     thread |-> "none", streams |-> FALSE, acked |-> FALSE]

\* the data callback of the input stream: every sample is pushed, then one
\* frame is drained if the ring is longer than ten frames
input_callback(len, data_len) ==
    LET pushed == len + data_len
    IN  IF pushed > FRAME_SIZE * RING_TRIM_FRAMES THEN pushed - FRAME_SIZE ELSE pushed

\* the data callback of the output stream: as many samples as the device asks
\* for and the ring holds are drained
output_callback(len, data_len) ==
    len - (IF data_len < len THEN data_len ELSE len)

\* capture_frame: a frame is returned when the ring holds one
capture_frame(a) ==
    IF a.input_len >= FRAME_SIZE
    THEN [frame |-> Some(FRAME_SIZE), a |-> [a EXCEPT !.input_len = @ - FRAME_SIZE]]
    ELSE [frame |-> None, a |-> a]

\* play_frame
play_frame(a, frame_len) == [a EXCEPT !.output_len = @ + frame_len]

\* start(), up to recv_timeout: the channels are created and the thread spawned
start_spawn(a) ==
    [a EXCEPT !.starting = TRUE, !.waited = 0, !.ready = None,
              !.commands = << >>, !.tx_alive = TRUE,
              !.thread = "starting", !.acked = FALSE]

\* the backend thread, up to its loop: backend.start and the message on the
\* readiness channel (lost when start() has given up and dropped the receiver)
backend_start(a, ok) ==
    IF ok
    THEN [a EXCEPT !.streams = TRUE, !.thread = "looping", !.acked = TRUE,
                   !.ready = IF a.starting THEN Some("ok") ELSE @]
    ELSE [a EXCEPT !.thread = "exited",
                   !.ready = IF a.starting THEN Some("err") ELSE @]

\* start(), the arm Err(_) of recv_timeout, mutated: the pipeline is marked
\* running all the same
start_timeout_MarksRunning(a) ==
    [a EXCEPT !.starting = FALSE, !.is_running = TRUE, !.command_tx = TRUE]

\* start(), the arm Err(_) of recv_timeout: tx is dropped with the call
start_timeout(a) ==
    [a EXCEPT !.starting = FALSE, !.tx_alive = FALSE]

\* start(), the arms Ok(Ok(())) and Ok(Err(e)) of recv_timeout
start_recv(a) ==
    IF a.ready = Some("ok")
    THEN [a EXCEPT !.starting = FALSE, !.ready = None,
                   !.command_tx = TRUE, !.is_running = TRUE]
    ELSE [a EXCEPT !.starting = FALSE, !.ready = None, !.tx_alive = FALSE]

\* stop()
AudioPipeline_stop(a) ==
    [a EXCEPT !.commands = IF a.command_tx THEN Append(@, "Stop") ELSE @,
              !.command_tx = FALSE,
              !.tx_alive = FALSE,
              !.is_running = FALSE]

\* set_noise_gate_threshold
set_noise_gate_threshold(a) ==
    [a EXCEPT !.commands = IF a.command_tx THEN Append(@, "SetNoiseGate") ELSE @]

\* one iteration of the backend thread's loop, mutated: a disconnected command
\* channel is treated like an empty one
backend_poll_IgnoresDisconnect(a) ==
    IF a.commands # << >>
    THEN IF Head(a.commands) = "Stop"
         THEN [a EXCEPT !.commands = Tail(@), !.streams = FALSE, !.thread = "exited"]
         ELSE [a EXCEPT !.commands = Tail(@)]
    ELSE a

\* one iteration of the backend thread's loop that does not sleep
backend_poll(a) ==
    IF a.commands # << >>
    THEN IF Head(a.commands) = "Stop"
         THEN [a EXCEPT !.commands = Tail(@), !.streams = FALSE, !.thread = "exited"]
         ELSE [a EXCEPT !.commands = Tail(@)]
    ELSE [a EXCEPT !.streams = FALSE, !.thread = "exited"]

\* the record of a call on the pipeline
AudioCall(op, res, a) ==
    [op |-> op, res |-> res, ready |-> a.ready, waited |-> a.waited]

(***************************************************************************)
(* The signaling server (node): rooms, connected peers, message handling   *)
(***************************************************************************)
\* the peer ids of the WebSocket connections and of the Join and Leave
\* messages, and the room ids
SigPeerIds == {"p1", "p2"}
SigRoomIds == {"r1", "r2"}

\* SignalingState::new.  A Room is the set of the keys of its peers map; a
\* ConnectedPeer is its room_id (its tx is the connection itself)
SignalingState_new == [rooms |-> EmptyMap, peers |-> EmptyMap]

\* handle_websocket, up to its tasks: the connection is entered in peers
handle_websocket(s, peer_id) ==
    [s EXCEPT !.peers = MapInsert(@, peer_id, [room_id |-> None])]

\* handle_signaling_message, Join: the state afterwards, the connections that
\* are sent PeerJoined and the connections that are sent PeerList
handle_Join(s, peer_id, room_id, joining_peer_id) ==
    LET room == IF room_id \in DOMAIN s.rooms THEN s.rooms[room_id] ELSE {}
    IN  [state |->
            [s EXCEPT
                !.rooms = MapInsert(@, room_id, room \cup {joining_peer_id}),
                !.peers = IF peer_id \in DOMAIN s.peers
                          THEN [@ EXCEPT ![peer_id].room_id = Some(room_id)]
                          ELSE @],
         peer_joined |-> DOMAIN s.peers \ {peer_id},
         peer_list |-> DOMAIN s.peers \cap {peer_id}]

\* handle_signaling_message, Leave
handle_Leave(s, room_id, leaving_peer_id) ==
    IF room_id \in DOMAIN s.rooms
    THEN [s EXCEPT !.rooms[room_id] = @ \ {leaving_peer_id}]
    ELSE s

\* handle_signaling_message, SdpOffer, SdpAnswer and IceCandidate: the
\* connections the message is forwarded to
handle_Relay(s, to) == DOMAIN s.peers \cap {to}

\* cleanup_peer
cleanup_peer(s, peer_id) ==
    LET room_id == IF peer_id \in DOMAIN s.peers THEN s.peers[peer_id].room_id ELSE None
    IN  [rooms |-> IF room_id # None /\ Unwrap(room_id) \in DOMAIN s.rooms
                   THEN [s.rooms EXCEPT ![Unwrap(room_id)] = @ \ {peer_id}]
                   ELSE s.rooms,
         peers |-> MapRemove(s.peers, peer_id)]

\* the record of a message handled: the connection it came from, the room it
\* names, and the connections that were sent PeerJoined and forwarded messages
SignalingCall(op, conn, room, peer_joined, forwarded) ==
    [op |-> op, conn |-> conn, room |-> room, peer_joined |-> peer_joined,
     forwarded |-> forwarded]

(***************************************************************************)
(* The state of a subsystem that a specification does not exercise         *)
(***************************************************************************)
SignalingIdle ==
    /\ signaling = SignalingState_new
    /\ sig_added = {}
    /\ sig_last = SignalingCall("new", "", "", {}, {})

AudioIdle ==
    /\ audio = AudioPipeline_new
    /\ audio_last = AudioCall("new", "ok", audio)

PunchIdle ==
    punch = TcpHolePuncher_new([local_port |-> 0, retry_count |-> MaxRetry])

NoiseIdle ==
    /\ noise = NoiseStart(FALSE, FALSE)
    /\ noise_sent = << >>
    /\ noise_last = NoiseCall("new", "initiator", "ok", noise.initiator)

JitterIdle ==
    /\ jitter = JitterBuffer_new(100, SAMPLE_RATE)
    /\ jb_pushed = << >>
    /\ jb_pops = 0
    /\ jb_last = [op |-> "new", got |-> None, depth |-> 0]

KeysIdle ==
    /\ rooms = [r \in RoomIds |-> None]
    /\ rotation_interval = DEFAULT_KEY_ROTATION_INTERVAL
    /\ mgr_out = << >>
    /\ mgr_accepted = [i \in 1..MaxSends |-> 0]
    /\ mgr_last = [op |-> "new", idx |-> 0, res |-> "ok", via |-> "none", events |-> {}]
    /\ last_rotation = [r \in RoomIds |-> NoRotation]
    /\ rotations = [r \in RoomIds |-> 0]

ChannelIdle ==
    /\ channel = EncryptedChannel_new(SessionKey_new(1, 0))
    /\ ch_out = << >>
    /\ ch_accepted = [i \in 1..MaxSends |-> 0]
    /\ ch_last = [op |-> "new", idx |-> 0, res |-> "ok", out |-> None]
    /\ ch_first = [i \in 1..MaxSends |-> -1]
    /\ ch_forged = {}
    /\ keys_minted = 1

\* the record of the last MixerManager call: its name, and the topology mode
\* and the presence of a current mixer when it was made
MixerCall(op, m) ==
    [op |-> op, mode |-> m.topology_mode, had_mixer |-> m.current_mixer # None]

MixerIdle ==
    /\ mixer = MixerManager_new(1, FULL_MESH_MAX_PARTICIPANTS)
    /\ mx_last = MixerCall("new", mixer)

IceIdle ==
    /\ ice = IceAgent_new("Aggressive", ICE_CONNECTIVITY_TIMEOUT)
    /\ ice_run = IceRunIdle

(***************************************************************************)
(* SessionKeyManager: the specification                                    *)
(***************************************************************************)
\* SessionKeyManager::new, optionally followed by with_rotation_interval
InitKeys ==
    /\ now = 0
    /\ SignalingIdle
    /\ AudioIdle
    /\ PunchIdle
    /\ NoiseIdle
    /\ JitterIdle
    /\ IceIdle
    /\ ChannelIdle
    /\ MixerIdle
    /\ rooms = [r \in RoomIds |-> None]
    /\ rotation_interval \in RotationIntervals
    /\ mgr_out = << >>
    /\ mgr_accepted = [i \in 1..MaxSends |-> 0]
    /\ mgr_last = [op |-> "new", idx |-> 0, res |-> "ok", via |-> "none", events |-> {}]
    /\ last_rotation = [r \in RoomIds |-> NoRotation]
    /\ rotations = [r \in RoomIds |-> 0]

TickKeys ==
    /\ \E t \in TimePoints : t > now /\ now' = t
    /\ UNCHANGED <<chanVars, keyVars, mixVars, iceVars, jitVars, noiseVars, punchVars, audioVars, sigVars>>

\* create_room with a key the caller has just minted
ManagerCreateRoom ==
    /\ \E r \in RoomIds, e \in ExpiryChoices :
          /\ rooms[r] = None
          /\ rooms' = create_room(rooms, r, SessionKey_with_expiry(<<"room", r>>, now, e),
                                  rotation_interval, now)
          /\ rotations' = [rotations EXCEPT ![r] = 0]
    /\ mgr_last' = [op |-> "create_room", idx |-> 0, res |-> "ok", via |-> "none",
                    events |-> {}]
    /\ UNCHANGED <<now, chanVars, mixVars, rotation_interval, mgr_out, mgr_accepted, last_rotation, iceVars, jitVars, noiseVars, punchVars, audioVars, sigVars>>

ManagerEncrypt ==
    /\ Len(mgr_out) < MaxSends
    /\ \E r \in RoomIds, p \in Plaintexts :
          /\ rooms[r] # None
          /\ LET x == manager_encrypt(Unwrap(rooms[r]), p, now)
             IN  /\ rooms' = [rooms EXCEPT ![r] = Some(x.room)]
                 /\ mgr_out' = IF x.res = "ok"
                               THEN Append(mgr_out, [room |-> r, msg |-> x.msg])
                               ELSE mgr_out
                 /\ mgr_last' = [op |-> "encrypt", idx |-> Len(mgr_out'), res |-> x.res,
                                 via |-> "none", events |-> {}]
    /\ UNCHANGED <<now, chanVars, mixVars, rotation_interval, mgr_accepted, last_rotation,
                   rotations, iceVars, jitVars, noiseVars, punchVars, audioVars, sigVars>>

ManagerDecrypt ==
    /\ \E i \in 1..Len(mgr_out) :
          LET r == mgr_out[i].room
              x == manager_decrypt(Unwrap(rooms[r]), mgr_out[i].msg, now)
          IN  /\ rooms[r] # None
              /\ rooms' = [rooms EXCEPT ![r] = Some(x.room)]
              /\ mgr_accepted' = IF x.res = "ok"
                                 THEN [mgr_accepted EXCEPT ![i] = CountUp(@)]
                                 ELSE mgr_accepted
              /\ mgr_last' = [op |-> "decrypt", idx |-> i, res |-> x.res,
                              via |-> x.via, events |-> {}]
    /\ UNCHANGED <<now, chanVars, mixVars, rotation_interval, mgr_out, last_rotation,
                   rotations, iceVars, jitVars, noiseVars, punchVars, audioVars, sigVars>>

\* SessionKeyManager::check_rotation: rotate every room that is due
ManagerCheckRotation ==
    /\ \A r \in rooms_to_rotate(rooms, now) : Unwrap(rooms[r]).current_key.id < MaxKeyId
    /\ LET due == rooms_to_rotate(rooms, now)
       IN  /\ rooms' = [r \in RoomIds |->
                          IF r \in due
                          THEN Some(rotate_room_key(Unwrap(rooms[r]), rotation_interval, now).room)
                          ELSE rooms[r]]
           /\ last_rotation' = [r \in RoomIds |->
                          IF r \in due
                          THEN RotationRecord("check_rotation", Unwrap(rooms[r]), now)
                          ELSE last_rotation[r]]
           /\ rotations' = [r \in RoomIds |->
                          IF r \in due THEN rotations[r] + 1 ELSE rotations[r]]
           /\ mgr_last' = [op |-> "check_rotation", idx |-> 0, res |-> "ok",
                           via |-> "none",
                           events |-> {[room_id |-> r] @@
                                       rotate_room_key(Unwrap(rooms[r]), rotation_interval, now).event
                                       : r \in due}]
    /\ UNCHANGED <<now, chanVars, mixVars, rotation_interval, mgr_out, mgr_accepted, iceVars, jitVars, noiseVars, punchVars, audioVars, sigVars>>

\* SessionKeyManager::rotate_key_now
ManagerRotateKeyNow ==
    /\ \E r \in RoomIds :
          /\ rooms[r] # None
          /\ Unwrap(rooms[r]).current_key.id < MaxKeyId
          /\ LET x == rotate_room_key(Unwrap(rooms[r]), rotation_interval, now)
             IN  /\ rooms' = [rooms EXCEPT ![r] = Some(x.room)]
                 /\ last_rotation' = [last_rotation EXCEPT ![r] =
                                         RotationRecord("rotate_key_now", Unwrap(rooms[r]), now)]
                 /\ rotations' = [rotations EXCEPT ![r] = rotations[r] + 1]
                 /\ mgr_last' = [op |-> "rotate_key_now", idx |-> 0, res |-> "ok",
                                 via |-> "none",
                                 events |-> {[room_id |-> r] @@ x.event}]
    /\ UNCHANGED <<now, chanVars, mixVars, rotation_interval, mgr_out, mgr_accepted, iceVars, jitVars, noiseVars, punchVars, audioVars, sigVars>>

NextKeys ==
    \/ TickKeys
    \/ ManagerCreateRoom
    \/ ManagerEncrypt
    \/ ManagerDecrypt
    \/ ManagerCheckRotation
    \/ ManagerRotateKeyNow

SpecKeys == InitKeys /\ [][NextKeys]_vars

(***************************************************************************)
(* EncryptedChannel: the specification                                     *)
(***************************************************************************)
InitChannel ==
    /\ now = 0
    /\ SignalingIdle
    /\ AudioIdle
    /\ PunchIdle
    /\ NoiseIdle
    /\ JitterIdle
    /\ IceIdle
    /\ \E e \in ExpiryChoices :
          channel = EncryptedChannel_new(SessionKey_with_expiry(1, 0, e))
    /\ ch_out = << >>
    /\ ch_accepted = [i \in 1..MaxSends |-> 0]
    /\ ch_last = [op |-> "new", idx |-> 0, res |-> "ok", out |-> None]
    /\ ch_first = [i \in 1..MaxSends |-> -1]
    /\ ch_forged = {}
    /\ keys_minted = 1
    /\ KeysIdle
    /\ MixerIdle

\* time passes between two calls
Tick ==
    /\ \E t \in TimePoints : t > now /\ now' = t
    /\ UNCHANGED <<chanVars, keyVars, mixVars, iceVars, jitVars, noiseVars, punchVars, audioVars, sigVars>>

ChannelEncrypt ==
    /\ Len(ch_out) < MaxSends
    /\ \E p \in Plaintexts :
          LET r == EncryptedChannel_encrypt(channel, p, now)
          IN  /\ channel' = r.ch
              /\ ch_out' = IF r.res = "ok" THEN Append(ch_out, r.msg) ELSE ch_out
              /\ ch_last' = [op |-> "encrypt", idx |-> Len(ch_out'), res |-> r.res,
                              out |-> None]
    /\ UNCHANGED <<now, ch_accepted, keys_minted, ch_first, ch_forged, keyVars, mixVars,
                   iceVars, jitVars, noiseVars, punchVars, audioVars, sigVars>>

ChannelDecrypt ==
    /\ \E i \in 1..Len(ch_out) :
          LET r == EncryptedChannel_decrypt(channel, ch_out[i], now)
          IN  /\ channel' = r.ch
              /\ ch_accepted' = IF r.res = "ok"
                                THEN [ch_accepted EXCEPT ![i] = CountUp(@)]
                                ELSE ch_accepted
              /\ ch_first' = IF r.res = "ok" /\ ch_first[i] = -1
                             THEN [ch_first EXCEPT ![i] = now]
                             ELSE ch_first
              /\ ch_last' = [op |-> "decrypt", idx |-> i, res |-> r.res,
                              out |-> r.plaintext]
    /\ UNCHANGED <<now, ch_out, keys_minted, ch_forged, keyVars, mixVars, iceVars, jitVars, noiseVars, punchVars, audioVars, sigVars>>

\* rotate_key with a freshly minted SessionKey (random or HKDF-derived bytes)
ChannelRotateKey ==
    /\ keys_minted < MaxChannelKeys
    /\ \E e \in ExpiryChoices :
          channel' = EncryptedChannel_rotate_key(channel,
                         SessionKey_with_expiry(keys_minted + 1, now, e))
    /\ keys_minted' = keys_minted + 1
    /\ ch_last' = [op |-> "rotate_key", idx |-> 0, res |-> "ok", out |-> None]
    /\ ch_forged' = {}
    /\ UNCHANGED <<now, ch_out, ch_accepted, ch_first, keyVars, mixVars, iceVars, jitVars, noiseVars, punchVars, audioVars, sigVars>>

NextChannel == Tick \/ ChannelEncrypt \/ ChannelDecrypt \/ ChannelRotateKey

SpecChannel == InitChannel /\ [][NextChannel]_vars

\* a message an attacker made up: the nonce of counter n and a ciphertext
\* sealed under a key (0) that no channel holds
ForgedMessage(n) ==
    EncryptedMessage_new(derive_nonce(n), cipher_encrypt(0, derive_nonce(n), "forged"))

\* decrypt is given a forged message
ChannelDecryptForged ==
    /\ \E n \in 0..(MaxSends - 1) :
          LET r == EncryptedChannel_decrypt(channel, ForgedMessage(n), now)
          IN  /\ channel' = r.ch
              /\ ch_forged' = ch_forged \cup {n}
              /\ ch_last' = [op |-> "forged", idx |-> n, res |-> r.res,
                              out |-> r.plaintext]
    /\ UNCHANGED <<now, ch_out, ch_accepted, keys_minted, ch_first, keyVars, mixVars,
                   iceVars, jitVars, noiseVars, punchVars, audioVars, sigVars>>

\* the channel on a network that also delivers forged messages
NextForgery ==
    \/ Tick
    \/ ChannelEncrypt
    \/ ChannelDecrypt
    \/ ChannelRotateKey
    \/ ChannelDecryptForged

SpecForgery == InitChannel /\ [][NextForgery]_vars

\* the message the other end of the session sends after n earlier ones: its
\* EncryptedChannel was built from the same SessionKey (the shared secret of
\* the key exchange) and encrypts with its own send counter
PeerMessage(session_key, n) ==
    EncryptedChannel_encrypt([EncryptedChannel_new(session_key) EXCEPT !.send_counter = n],
                             "q", session_key.created_at).msg

\* decrypt is given a message of the other end of the session
ChannelDecryptPeer ==
    /\ \E n \in 0..(MaxSends - 1) :
          LET r == EncryptedChannel_decrypt(channel, PeerMessage(channel.session_key, n), now)
          IN  /\ channel' = r.ch
              /\ ch_last' = [op |-> "peer", idx |-> n, res |-> r.res, out |-> r.plaintext]
    /\ UNCHANGED <<now, ch_out, ch_accepted, keys_minted, ch_first, ch_forged, keyVars,
                   mixVars, iceVars, jitVars, noiseVars, punchVars, audioVars, sigVars>>

\* the channel as one end of a session: it encrypts its own messages and
\* decrypts its own and the other end's
NextSession ==
    \/ Tick
    \/ ChannelEncrypt
    \/ ChannelDecrypt
    \/ ChannelRotateKey
    \/ ChannelDecryptPeer

SpecSession == InitChannel /\ [][NextSession]_vars

(***************************************************************************)
(* MixerManager: the specification                                         *)
(***************************************************************************)
InitMixer ==
    /\ now = 0
    /\ SignalingIdle
    /\ AudioIdle
    /\ PunchIdle
    /\ NoiseIdle
    /\ JitterIdle
    /\ IceIdle
    /\ ChannelIdle
    /\ KeysIdle
    /\ \E l \in LocalIds, th \in Thresholds :
          /\ mixer = MixerManager_new(l, th)
          /\ mx_last = MixerCall("new", mixer)

RemoteIds == PeerIds \ {mixer.local_peer_id}

MixerAddParticipant ==
    /\ \E p \in RemoteIds :
          /\ mixer' = add_participant(mixer, p, now)
          /\ mx_last' = MixerCall("add_participant", mixer)
    /\ UNCHANGED <<now, chanVars, keyVars, iceVars, jitVars, noiseVars, punchVars, audioVars, sigVars>>

MixerRemoveParticipant ==
    /\ \E p \in RemoteIds :
          /\ mixer' = remove_participant(mixer, p, now)
          \* the record also tells whether the departing peer was the mixer
          /\ mx_last' = [op |-> "remove_participant", mode |-> mixer.topology_mode,
                         had_mixer |-> mixer.current_mixer # None,
                         mixer_left |-> mixer.current_mixer = Some(p)]
    /\ UNCHANGED <<now, chanVars, keyVars, iceVars, jitVars, noiseVars, punchVars, audioVars, sigVars>>

MixerUpdateStats ==
    /\ \E p \in DOMAIN mixer.participants \cap StatsPeers, st \in StatsChoices :
          /\ mixer' = update_participant_stats(mixer, p, st)
          /\ mx_last' = MixerCall("update_participant_stats", mixer)
    /\ UNCHANGED <<now, chanVars, keyVars, iceVars, jitVars, noiseVars, punchVars, audioVars, sigVars>>

MixerSelectMixer ==
    /\ mixer' = select_mixer(mixer, now)
    /\ mx_last' = MixerCall("select_mixer", mixer)
    /\ UNCHANGED <<now, chanVars, keyVars, iceVars, jitVars, noiseVars, punchVars, audioVars, sigVars>>

MixerRotateMixer ==
    /\ mixer' = rotate_mixer(mixer, now)
    /\ mx_last' = MixerCall("rotate_mixer", mixer)
    /\ UNCHANGED <<now, chanVars, keyVars, iceVars, jitVars, noiseVars, punchVars, audioVars, sigVars>>

NextMixer ==
    \/ MixerAddParticipant
    \/ MixerRemoveParticipant
    \/ MixerUpdateStats
    \/ MixerSelectMixer
    \/ MixerRotateMixer

SpecMixer == InitMixer /\ [][NextMixer]_vars

(***************************************************************************)
(* MixerManager with the clock: rotation of the mixer                      *)
(***************************************************************************)
\* the instants at which the manager is called: around one and two rotation
\* intervals after the start
RotationTimes ==
    {0, 1, MIXER_ROTATION_INTERVAL - 1, MIXER_ROTATION_INTERVAL,
     MIXER_ROTATION_INTERVAL + 1, 2 * MIXER_ROTATION_INTERVAL}

\* the peers that join while the clock runs
RotationPeers == 1..3

\* time passes between two calls
MixerElapse ==
    /\ \E t \in RotationTimes : t > now /\ now' = t
    /\ mx_last' = MixerCall("elapse", mixer)
    /\ UNCHANGED <<mixer, chanVars, keyVars, iceVars, jitVars, noiseVars, punchVars, audioVars, sigVars>>

MixerJoin ==
    /\ \E p \in RotationPeers \ {mixer.local_peer_id} :
          /\ mixer' = add_participant(mixer, p, now)
          /\ mx_last' = MixerCall("add_participant", mixer)
    /\ UNCHANGED <<now, chanVars, keyVars, iceVars, jitVars, noiseVars, punchVars, audioVars, sigVars>>

MixerCheckRotation ==
    /\ LET out == check_rotation(mixer, now)
       IN  /\ mixer' = out.m
           /\ mx_last' = [op |-> "check_rotation", mode |-> mixer.topology_mode,
                          had_mixer |-> mixer.current_mixer # None,
                          res |-> out.res]
    /\ UNCHANGED <<now, chanVars, keyVars, iceVars, jitVars, noiseVars, punchVars, audioVars, sigVars>>

NextRotation ==
    \/ MixerJoin
    \/ MixerRemoveParticipant
    \/ MixerUpdateStats
    \/ MixerSelectMixer
    \/ MixerRotateMixer
    \/ MixerCheckRotation
    \/ MixerElapse

SpecRotation == InitMixer /\ [][NextRotation]_vars

(***************************************************************************)
(* IceAgent: the specification                                             *)
(***************************************************************************)
InitIce ==
    /\ now = 0
    /\ SignalingIdle
    /\ AudioIdle
    /\ PunchIdle
    /\ NoiseIdle
    /\ JitterIdle
    /\ ChannelIdle
    /\ KeysIdle
    /\ MixerIdle
    /\ \E mode \in NominationModes, timeout \in ConnectivityTimeouts :
          ice = IceAgent_new(mode, timeout)
    /\ ice_run = IceRunIdle

\* no perform_connectivity_checks call holds the agent
IceFree == ice_run.pc \in {"idle", "returned"}

\* the answers of the STUN servers of one gathering: none, one or both
StunAnswers == {<< >>, <<PublicAddr>>, <<PublicAddr, PublicAddr>>}

IceGatherCandidates ==
    /\ IceFree
    /\ \E addr \in HostAddrs, answers \in StunAnswers :
          /\ Len(ice.local_candidates) + 1 + Len(answers) <= MaxLocal
          /\ ice' = gather_candidates(ice, <<addr>>, answers)
    /\ ice_run' = IceRunIdle
    /\ UNCHANGED <<now, chanVars, keyVars, mixVars, jitVars, noiseVars, punchVars, audioVars, sigVars>>

IceAddRemoteCandidate ==
    /\ IceFree
    /\ \E c \in RemoteChoices :
          /\ c \in Range(ice.remote_candidates) \/ Len(ice.remote_candidates) < MaxRemote
          /\ ice' = add_remote_candidate(ice, c)
          \* a candidate already known changes nothing
          /\ ice_run' = IF c \in Range(ice.remote_candidates) THEN ice_run ELSE IceRunIdle
    /\ UNCHANGED <<now, chanVars, keyVars, mixVars, jitVars, noiseVars, punchVars, audioVars, sigVars>>

\* perform_connectivity_checks is called: start_time = Instant::now()
IcePerformStart ==
    /\ IceFree
    /\ ice_run' = [IceRunIdle EXCEPT !.pc = "while"]
    /\ UNCHANGED <<ice, now, chanVars, keyVars, mixVars, jitVars, noiseVars, punchVars, audioVars, sigVars>>

\* a loop head that leaves the loop without testing anything
IceLoopHead_LeavesAtOnce ==
    /\ ice_run.pc = "while"
    /\ LET fin == finalize_selection(ice)
       IN  /\ ice' = fin.agent
           /\ ice_run' = [ice_run EXCEPT !.pc = "returned", !.res = fin.res,
                                          !.just_ok = 0]
    /\ UNCHANGED <<now, chanVars, keyVars, mixVars, jitVars, noiseVars, punchVars, audioVars, sigVars>>

\* the head of the while loop: the budget test, the pending pairs, and
\* finalize_selection when the loop ends
IceLoopHead ==
    /\ ice_run.pc = "while"
    /\ IF ice_run.elapsed < ice.config.connectivity_timeout /\ Len(pending_pairs(ice)) > 0
       THEN /\ ice_run' = [ice_run EXCEPT !.pc = "for", !.pending = pending_pairs(ice),
                                           !.just_ok = 0]
            /\ ice' = ice
       ELSE LET fin == finalize_selection(ice)
            IN  /\ ice' = fin.agent
                /\ ice_run' = [ice_run EXCEPT !.pc = "returned", !.res = fin.res,
                                               !.just_ok = 0]
    /\ UNCHANGED <<now, chanVars, keyVars, mixVars, jitVars, noiseVars, punchVars, audioVars, sigVars>>

\* the next pending pair is marked InProgress and its check is sent
IceCheckBegin ==
    /\ ice_run.pc = "for"
    /\ ice' = [ice EXCEPT !.checklist[Head(ice_run.pending)].state = "InProgress"]
    /\ ice_run' = [ice_run EXCEPT !.pc = "await", !.just_ok = 0]
    /\ UNCHANGED <<now, chanVars, keyVars, mixVars, jitVars, noiseVars, punchVars, audioVars, sigVars>>

\* the time a run has taken, counted up to the budget
Elapse(e, d) == Min2(e + d, ice.config.connectivity_timeout)

\* the check of the pair in progress ends; after the last pending pair, or
\* after an aggressive nomination, the iteration sleeps ICE_CHECK_INTERVAL
IceCheckEnd ==
    /\ ice_run.pc = "await"
    /\ \E ok \in BOOLEAN, d \in CheckDurations :
          LET idx == Head(ice_run.pending)
              rest == Tail(ice_run.pending)
              aggressive == ice.config.nomination_mode = "Aggressive"
              checked == [ice EXCEPT !.checklist[idx].state =
                                         IF ok THEN "Succeeded" ELSE "Failed"]
              stop == (ok /\ aggressive) \/ Len(rest) = 0
          IN  /\ ice' = IF ok /\ aggressive THEN nominate_pair(checked, idx) ELSE checked
              /\ ice_run' =
                    [ice_run EXCEPT
                        !.pc = IF stop THEN "while" ELSE "for",
                        !.pending = IF stop THEN << >> ELSE rest,
                        !.elapsed = IF stop
                                    THEN Elapse(Elapse(ice_run.elapsed, d), ICE_CHECK_INTERVAL)
                                    ELSE Elapse(ice_run.elapsed, d),
                        !.nominations = IF ok /\ aggressive
                                        THEN CountUp(ice_run.nominations)
                                        ELSE ice_run.nominations,
                        !.just_ok = IF ok THEN idx ELSE 0]
    /\ UNCHANGED <<now, chanVars, keyVars, mixVars, jitVars, noiseVars, punchVars, audioVars, sigVars>>

NextIce ==
    \/ IceGatherCandidates
    \/ IceAddRemoteCandidate
    \/ IcePerformStart
    \/ IceLoopHead
    \/ IceCheckBegin
    \/ IceCheckEnd

SpecIce == InitIce /\ [][NextIce]_vars

\* perform_connectivity_checks is a future the caller awaits: the executor
\* keeps polling it, the 500 ms timeout of tokio::time::timeout ends every
\* check and the 50 ms of tokio::time::sleep end every pause, so each step of
\* a call in progress is eventually taken
SpecIceFair ==
    /\ SpecIce
    /\ WF_vars(IceLoopHead)
    /\ WF_vars(IceCheckBegin)
    /\ WF_vars(IceCheckEnd)

(***************************************************************************)
(* JitterBuffer: the specification                                         *)
(***************************************************************************)
InitJitter ==
    /\ now = 0
    /\ SignalingIdle
    /\ AudioIdle
    /\ PunchIdle
    /\ NoiseIdle
    /\ ChannelIdle
    /\ KeysIdle
    /\ MixerIdle
    /\ IceIdle
    /\ \E t \in TargetDelays : jitter = JitterBuffer_new(t, SAMPLE_RATE)
    /\ jb_pushed = << >>
    /\ jb_pops = 0
    /\ jb_last = [op |-> "new", got |-> None, depth |-> 0]

\* push of the next packet of the stream: the pushes are in order, the
\* sequence number of a packet is the number of packets pushed before it
JitterPush ==
    /\ Len(jb_pushed) < MaxPushes
    /\ LET packet == AudioPacket_new(Len(jb_pushed), "peer1")
       IN  /\ jitter' = JitterBuffer_push(jitter, packet)
           /\ jb_pushed' = Append(jb_pushed, packet)
    /\ jb_last' = [op |-> "push", got |-> None, depth |-> buffer_depth(jitter)]
    /\ UNCHANGED <<now, chanVars, keyVars, mixVars, iceVars, jb_pops, noiseVars, punchVars, audioVars, sigVars>>

\* pop; jb_last keeps the frame returned and the depth the call found
JitterPop ==
    /\ LET r == JitterBuffer_pop(jitter)
       IN  /\ jitter' = r.buf
           /\ jb_last' = [op |-> "pop", got |-> r.frame, depth |-> buffer_depth(jitter)]
    /\ jb_pops' = IF buffer_depth(jitter) > 0 THEN jb_pops + 1 ELSE jb_pops
    /\ UNCHANGED <<now, chanVars, keyVars, mixVars, iceVars, jb_pushed, noiseVars, punchVars, audioVars, sigVars>>

JitterClear ==
    /\ jitter' = JitterBuffer_clear(jitter)
    /\ jb_pushed' = << >>
    /\ jb_pops' = 0
    /\ jb_last' = [op |-> "clear", got |-> None, depth |-> buffer_depth(jitter)]
    /\ UNCHANGED <<now, chanVars, keyVars, mixVars, iceVars, noiseVars, punchVars, audioVars, sigVars>>

NextJitter ==
    \/ JitterPush
    \/ JitterPop
    \/ JitterClear

SpecJitter == InitJitter /\ [][NextJitter]_vars

(***************************************************************************)
(* NoiseSession: the specification                                         *)
(***************************************************************************)
NoiseSides == {"initiator", "responder"}

InitNoise ==
    /\ now = 0
    /\ SignalingIdle
    /\ AudioIdle
    /\ PunchIdle
    /\ JitterIdle
    /\ IceIdle
    /\ MixerIdle
    /\ ChannelIdle
    /\ KeysIdle
    /\ \E pi \in BOOLEAN, pr \in BOOLEAN : noise = NoiseStart(pi, pr)
    /\ noise_sent = << >>
    /\ noise_last = NoiseCall("new", "initiator", "ok", noise.initiator)

\* the bytes a caller can hand to a session: anything written so far by either
\* session, or bytes nobody wrote
NoiseInputs == {noise_sent[i] : i \in DOMAIN noise_sent} \cup {JunkBytes}

NoiseWrite ==
    /\ \E side \in NoiseSides :
          LET r == write_handshake_message(noise[side], "p")
          IN  /\ noise' = [noise EXCEPT ![side] = r.s]
              /\ noise_sent' = IF r.res = "ok" THEN Append(noise_sent, Unwrap(r.out))
                               ELSE noise_sent
              /\ noise_last' = NoiseCall("write_handshake_message", side, r.res, noise[side])
    /\ UNCHANGED <<now, chanVars, keyVars, mixVars, iceVars, jitVars, punchVars, audioVars, sigVars>>

NoiseRead ==
    /\ \E side \in NoiseSides, message \in NoiseInputs :
          LET r == read_handshake_message(noise[side], message)
          IN  /\ noise' = [noise EXCEPT ![side] = r.s]
              /\ noise_last' = NoiseCall("read_handshake_message", side, r.res, noise[side])
    /\ UNCHANGED <<now, chanVars, keyVars, mixVars, iceVars, jitVars, noise_sent, punchVars, audioVars, sigVars>>

NoiseEncrypt ==
    /\ \E side \in NoiseSides :
          /\ IF noise[side].transport = None THEN TRUE
             ELSE Unwrap(noise[side].transport).send_n < MaxNoiseSends
          /\ LET r == NoiseSession_encrypt(noise[side], "q")
             IN  /\ noise' = [noise EXCEPT ![side] = r.s]
                 /\ noise_sent' = IF r.res = "ok" THEN Append(noise_sent, Unwrap(r.out))
                                  ELSE noise_sent
                 /\ noise_last' = NoiseCall("encrypt", side, r.res, noise[side])
    /\ UNCHANGED <<now, chanVars, keyVars, mixVars, iceVars, jitVars, punchVars, audioVars, sigVars>>

NoiseDecrypt ==
    /\ \E side \in NoiseSides, ciphertext \in NoiseInputs :
          LET r == NoiseSession_decrypt(noise[side], ciphertext)
          IN  /\ noise' = [noise EXCEPT ![side] = r.s]
              /\ noise_last' = NoiseCall("decrypt", side, r.res, noise[side])
    /\ UNCHANGED <<now, chanVars, keyVars, mixVars, iceVars, jitVars, noise_sent, punchVars, audioVars, sigVars>>

NextNoise ==
    \/ NoiseWrite
    \/ NoiseRead
    \/ NoiseEncrypt
    \/ NoiseDecrypt

SpecNoise == InitNoise /\ [][NextNoise]_vars

(***************************************************************************)
(* TcpHolePuncher: the specification                                       *)
(***************************************************************************)
InitPunch ==
    /\ now = 0
    /\ SignalingIdle
    /\ AudioIdle
    /\ JitterIdle
    /\ IceIdle
    /\ MixerIdle
    /\ ChannelIdle
    /\ KeysIdle
    /\ NoiseIdle
    /\ \E port \in LocalPorts, retries \in 0..MaxRetry :
          punch = TcpHolePuncher_new([local_port |-> port, retry_count |-> retries])

\* punch is called: the local endpoints are announced, or send_ready fails
PunchSendReady ==
    /\ punch.pc = "idle"
    /\ \E sent \in BOOLEAN : punch' = punch_send_ready(punch, sent)
    /\ UNCHANGED <<now, chanVars, keyVars, mixVars, iceVars, jitVars, noiseVars, audioVars, sigVars>>

\* wait_for_peer_ready returns
PunchWaitForPeerReady ==
    /\ punch.pc = "sent_ready"
    /\ \E ready \in {None} \cup {Some(l) : l \in PeerEndpointLists} :
          punch' = punch_wait_for_peer_ready(punch, ready)
    /\ UNCHANGED <<now, chanVars, keyVars, mixVars, iceVars, jitVars, noiseVars, audioVars, sigVars>>

\* one iteration of `for attempt in 0..retry_count`
PunchSimultaneousOpen ==
    /\ punch.pc = "ready"
    /\ punch.attempt < punch.config.retry_count
    /\ \E connected \in SUBSET DOMAIN punch.peer_endpoints, peer_addr_ok \in BOOLEAN :
          \E winner \in IF connected = {} THEN {0} ELSE connected :
             punch' = punch_attempt(
                        punch,
                        attempt_simultaneous_open(punch.peer_endpoints, connected, winner),
                        peer_addr_ok)
    /\ UNCHANGED <<now, chanVars, keyVars, mixVars, iceVars, jitVars, noiseVars, audioVars, sigVars>>

\* the loop is over: attempt_sequential and the return
PunchSequential ==
    /\ punch.pc = "ready"
    /\ punch.attempt >= punch.config.retry_count
    /\ \E connected \in SUBSET DOMAIN punch.peer_endpoints, peer_addr_ok \in BOOLEAN :
          punch' = punch_sequential(punch, connected, peer_addr_ok)
    /\ UNCHANGED <<now, chanVars, keyVars, mixVars, iceVars, jitVars, noiseVars, audioVars, sigVars>>

NextPunch ==
    \/ PunchSendReady
    \/ PunchWaitForPeerReady
    \/ PunchSimultaneousOpen
    \/ PunchSequential

SpecPunch == InitPunch /\ [][NextPunch]_vars

\* every await of punch completes: the connection attempts run under
\* config.timeout and the pause between two attempts is a 100 ms sleep
SpecPunchFair ==
    SpecPunch /\ WF_vars(PunchSimultaneousOpen) /\ WF_vars(PunchSequential)

(***************************************************************************)
(* AudioPipeline: the specification                                        *)
(***************************************************************************)
InitAudio ==
    /\ now = 0
    /\ SignalingIdle
    /\ JitterIdle
    /\ IceIdle
    /\ MixerIdle
    /\ ChannelIdle
    /\ KeysIdle
    /\ NoiseIdle
    /\ PunchIdle
    /\ audio = AudioPipeline_new
    /\ audio_last = AudioCall("new", "ok", audio)

\* the pipeline's owner calls one method at a time: none while start() waits
AudioOwnerFree == ~audio.starting

\* start() on a running pipeline returns at once; otherwise it spawns the
\* backend thread and waits.  One backend thread is followed: start() is
\* called again once the previous thread has left its loop.
AudioStart ==
    /\ AudioOwnerFree
    /\ IF audio.is_running
       THEN /\ audio_last' = AudioCall("start", "ok", audio)
            /\ UNCHANGED audio
       ELSE /\ audio.thread \in {"none", "exited"}
            /\ audio' = start_spawn(audio)
            /\ audio_last' = AudioCall("start", "pending", audio)
    /\ UNCHANGED <<now, chanVars, keyVars, mixVars, iceVars, jitVars, noiseVars, punchVars, sigVars>>

\* a second passes while start() waits on the readiness channel
AudioWait ==
    /\ audio.starting
    /\ audio.ready = None
    /\ audio.waited < READY_TIMEOUT_SECS
    /\ audio' = [audio EXCEPT !.waited = @ + 1]
    /\ UNCHANGED <<now, chanVars, keyVars, mixVars, iceVars, jitVars, noiseVars, punchVars,
                   audio_last, sigVars>>

\* the backend thread runs backend.start and reports on the readiness channel
AudioBackendStart ==
    /\ audio.thread = "starting"
    /\ \E ok \in BOOLEAN : audio' = backend_start(audio, ok)
    /\ UNCHANGED <<now, chanVars, keyVars, mixVars, iceVars, jitVars, noiseVars, punchVars,
                   audio_last, sigVars>>

\* recv_timeout returns the thread's message; Ok(Err(e)) joins the thread
AudioStartRecv ==
    /\ audio.starting
    /\ audio.ready # None
    /\ audio.ready = Some("err") => audio.thread = "exited"
    /\ audio' = start_recv(audio)
    /\ audio_last' = AudioCall("start", IF audio.ready = Some("ok") THEN "ok" ELSE "audio",
                               audio)
    /\ UNCHANGED <<now, chanVars, keyVars, mixVars, iceVars, jitVars, noiseVars, punchVars, sigVars>>

\* recv_timeout gives up
AudioStartTimeout ==
    /\ audio.starting
    /\ audio.ready = None
    /\ audio.waited >= READY_TIMEOUT_SECS
    /\ audio' = start_timeout(audio)
    /\ audio_last' = AudioCall("start", "audio", audio)
    /\ UNCHANGED <<now, chanVars, keyVars, mixVars, iceVars, jitVars, noiseVars, punchVars, sigVars>>

AudioStop ==
    /\ AudioOwnerFree
    /\ audio' = AudioPipeline_stop(audio)
    /\ audio_last' = AudioCall("stop", "ok", audio)
    /\ UNCHANGED <<now, chanVars, keyVars, mixVars, iceVars, jitVars, noiseVars, punchVars, sigVars>>

AudioSetNoiseGate ==
    /\ AudioOwnerFree
    /\ Len(audio.commands) < MaxCommands
    /\ audio' = set_noise_gate_threshold(audio)
    /\ audio_last' = AudioCall("set_noise_gate_threshold", "ok", audio)
    /\ UNCHANGED <<now, chanVars, keyVars, mixVars, iceVars, jitVars, noiseVars, punchVars, sigVars>>

\* the backend thread takes a command, or finds the channel disconnected
AudioBackendPoll ==
    /\ audio.thread = "looping"
    /\ ~(audio.commands = << >> /\ audio.tx_alive)
    /\ audio' = backend_poll(audio)
    /\ UNCHANGED <<now, chanVars, keyVars, mixVars, iceVars, jitVars, noiseVars, punchVars,
                   audio_last, sigVars>>

\* the device calls the input stream's data callback
AudioInputCallback ==
    /\ audio.streams
    /\ \E n \in CallbackSizes :
          /\ input_callback(audio.input_len, n) <= MaxRingFrames * FRAME_SIZE
          /\ audio' = [audio EXCEPT !.input_len = input_callback(@, n)]
    /\ UNCHANGED <<now, chanVars, keyVars, mixVars, iceVars, jitVars, noiseVars, punchVars,
                   audio_last, sigVars>>

\* the device calls the output stream's data callback
AudioOutputCallback ==
    /\ audio.streams
    /\ \E n \in CallbackSizes :
          audio' = [audio EXCEPT !.output_len = output_callback(@, n)]
    /\ UNCHANGED <<now, chanVars, keyVars, mixVars, iceVars, jitVars, noiseVars, punchVars,
                   audio_last, sigVars>>

AudioCaptureFrame ==
    /\ AudioOwnerFree
    /\ LET r == capture_frame(audio)
       IN  /\ audio' = r.a
           /\ audio_last' = AudioCall("capture_frame",
                                      IF r.frame = None THEN "none" ELSE "some", audio)
    /\ UNCHANGED <<now, chanVars, keyVars, mixVars, iceVars, jitVars, noiseVars, punchVars, sigVars>>

AudioPlayFrame ==
    /\ AudioOwnerFree
    /\ play_frame(audio, FRAME_SIZE).output_len <= MaxRingFrames * FRAME_SIZE
    /\ audio' = play_frame(audio, FRAME_SIZE)
    /\ audio_last' = AudioCall("play_frame", "ok", audio)
    /\ UNCHANGED <<now, chanVars, keyVars, mixVars, iceVars, jitVars, noiseVars, punchVars, sigVars>>

NextAudio ==
    \/ AudioStart
    \/ AudioWait
    \/ AudioBackendStart
    \/ AudioStartRecv
    \/ AudioStartTimeout
    \/ AudioStop
    \/ AudioSetNoiseGate
    \/ AudioBackendPoll
    \/ AudioInputCallback
    \/ AudioOutputCallback
    \/ AudioCaptureFrame
    \/ AudioPlayFrame

SpecAudio == InitAudio /\ [][NextAudio]_vars

\* the backend thread is an operating-system thread: backend.start returns and
\* the loop, which sleeps 10 ms when the channel is empty, keeps running
SpecAudioFair ==
    SpecAudio /\ WF_vars(AudioBackendStart) /\ WF_vars(AudioBackendPoll)

(***************************************************************************)
(* The signaling server: the specification                                 *)
(***************************************************************************)
\* Each message is handled to its end before the next one is taken; the
\* interleavings of two handlers between their lock acquisitions only add
\* behaviours to the ones followed here.
InitSignaling ==
    /\ now = 0
    /\ AudioIdle
    /\ PunchIdle
    /\ NoiseIdle
    /\ JitterIdle
    /\ IceIdle
    /\ MixerIdle
    /\ ChannelIdle
    /\ KeysIdle
    /\ signaling = SignalingState_new
    /\ sig_added = {}
    /\ sig_last = SignalingCall("new", "", "", {}, {})

\* a WebSocket connection with a peer id that is not connected is upgraded
SigConnect ==
    /\ \E c \in SigPeerIds \ DOMAIN signaling.peers :
          /\ signaling' = handle_websocket(signaling, c)
          /\ sig_last' = SignalingCall("connect", c, "", {}, {})
    /\ UNCHANGED <<now, chanVars, keyVars, mixVars, iceVars, jitVars, noiseVars, punchVars,
                   audioVars, sig_added>>

\* a connection sends Join: the room id and the peer id are the message's
SigJoin ==
    /\ \E c \in DOMAIN signaling.peers, r \in SigRoomIds, p \in SigPeerIds :
          LET h == handle_Join(signaling, c, r, p)
          IN  /\ signaling' = h.state
              /\ sig_added' = sig_added \cup {<<c, r, p>>}
              /\ sig_last' = SignalingCall("Join", c, r, h.peer_joined, {})
    /\ UNCHANGED <<now, chanVars, keyVars, mixVars, iceVars, jitVars, noiseVars, punchVars,
                   audioVars>>

\* a connection sends Leave
SigLeave ==
    /\ \E c \in DOMAIN signaling.peers, r \in SigRoomIds, p \in SigPeerIds :
          /\ signaling' = handle_Leave(signaling, r, p)
          /\ sig_added' = {e \in sig_added : ~(e[2] = r /\ e[3] = p)}
          /\ sig_last' = SignalingCall("Leave", c, r, {}, {})
    /\ UNCHANGED <<now, chanVars, keyVars, mixVars, iceVars, jitVars, noiseVars, punchVars,
                   audioVars>>

\* a connection sends SdpOffer, SdpAnswer or IceCandidate
SigRelay ==
    /\ \E c \in DOMAIN signaling.peers, to \in SigPeerIds :
          sig_last' = SignalingCall("Relay", c, "", {}, handle_Relay(signaling, to))
    /\ UNCHANGED <<now, chanVars, keyVars, mixVars, iceVars, jitVars, noiseVars, punchVars,
                   audioVars, signaling, sig_added>>

\* a connection closes: its tasks end and cleanup_peer runs
SigClose ==
    /\ \E c \in DOMAIN signaling.peers :
          /\ signaling' = cleanup_peer(signaling, c)
          /\ sig_added' =
                {e \in sig_added :
                    ~(signaling.peers[c].room_id = Some(e[2]) /\ e[3] = c)}
          /\ sig_last' = SignalingCall("close", c, "", {}, {})
    /\ UNCHANGED <<now, chanVars, keyVars, mixVars, iceVars, jitVars, noiseVars, punchVars,
                   audioVars>>

NextSignaling ==
    \/ SigConnect
    \/ SigJoin
    \/ SigLeave
    \/ SigRelay
    \/ SigClose

SpecSignaling == InitSignaling /\ [][NextSignaling]_vars

(***************************************************************************)
(* Claims about EncryptedChannel (checked under SpecChannel)               *)
(***************************************************************************)
\* how often ch_out[i] had been accepted before the last call
ChPrior(i) ==
    IF ch_last.op = "decrypt" /\ ch_last.idx = i /\ ch_last.res = "ok"
    THEN ch_accepted[i] - 1
    ELSE ch_accepted[i]

\* the message was encrypted under the key the channel holds now
ChUnderCurrentKey(i) == ch_out[i].ciphertext.k = channel.session_key.key

\* C2: a ciphertext produced by encrypt is accepted by the first decrypt and
\* rejected by every later decrypt on the same channel and key, whatever was
\* encrypted or decrypted in between: the later decrypt returns the replay
\* error (or the expired-key error once the key has expired), never Ok.
C2_ReplayRejected ==
    (ch_last.op = "decrypt" /\ ChUnderCurrentKey(ch_last.idx)) =>
        IF ChPrior(ch_last.idx) = 0
        THEN ch_last.res \in {"ok", "expired"}
        ELSE ch_last.res \in {"replay", "expired"}

\* the messages encrypted before ch_out[i] under the same key
ChEarlierSameKey(i) ==
    {j \in 1..(i - 1) : ch_out[j].ciphertext.k = ch_out[i].ciphertext.k}

\* C4: under one key the send counter starts at 0 and grows by one per encrypt,
\* every nonce is 4 zero bytes followed by the little-endian counter, so no two
\* encrypt calls under one key share a nonce and two ciphertexts of the same
\* plaintext differ.
C4_UniqueNonces ==
    /\ \A i \in 1..Len(ch_out) :
          /\ SubSeq(ch_out[i].nonce, 1, 4) = <<0, 0, 0, 0>>
          /\ Len(ch_out[i].nonce) = 12
          /\ SubSeq(ch_out[i].nonce, 5, 12) = to_le_bytes(Cardinality(ChEarlierSameKey(i)))
    /\ \A i, j \in 1..Len(ch_out) :
          (i # j /\ ch_out[i].ciphertext.k = ch_out[j].ciphertext.k) =>
              /\ ch_out[i].nonce # ch_out[j].nonce
              /\ ch_out[i].ciphertext # ch_out[j].ciphertext
    /\ channel.send_counter =
          Cardinality({i \in 1..Len(ch_out) : ChUnderCurrentKey(i)})

\* two encrypt calls of the same plaintext have been made under one key
C4_Witness ==
    /\ Len(ch_out) >= 2
    /\ ch_out[1].ciphertext.k = ch_out[2].ciphertext.k
    /\ ch_out[1].ciphertext.p = ch_out[2].ciphertext.p
    /\ ch_last.op = "encrypt" /\ ch_last.res = "ok"

(***************************************************************************)
(* Claims about SessionKeyManager (checked under SpecKeys)                 *)
(***************************************************************************)
\* mgr_out[i] was encrypted under the key that is now the room's previous key
UnderPreviousKey(i) ==
    LET room == Unwrap(rooms[mgr_out[i].room])
    IN  /\ room.previous_key # None
        /\ mgr_out[i].msg.ciphertext.k = Unwrap(room.previous_key).key.key

\* the latest rotation of the room is one the grace window is promised for:
\* check_rotation at the scheduled instant of a key that had not expired, or
\* rotate_key_now called while the outgoing key still had more than the
\* in-flight time to live; and the message has been in flight for at most
\* IN_FLIGHT_SECS since
InGraceWindow(r) ==
    /\ last_rotation[r].kind \in {"check_rotation", "rotate_key_now"}
    /\ last_rotation[r].live
    /\ last_rotation[r].kind = "check_rotation" => last_rotation[r].on_time
    /\ last_rotation[r].kind = "rotate_key_now" => last_rotation[r].lasting
    /\ now - last_rotation[r].at <= IN_FLIGHT_SECS

\* C1: after every rotation (check_rotation at its scheduled instant or
\* rotate_key_now, the first or a later one) a message encrypted under the
\* outgoing key and not yet decrypted is still decrypted successfully, through
\* the previous key.
C1_GraceWindow ==
    \A i \in 1..Len(mgr_out) :
        LET r == mgr_out[i].room
        IN  (/\ rooms[r] # None
             /\ UnderPreviousKey(i)
             /\ mgr_accepted[i] = 0
             /\ InGraceWindow(r))
            => manager_decrypt(Unwrap(rooms[r]), mgr_out[i].msg, now).res = "ok"

\* C3: whatever the interleaving of encrypt, decrypt, check_rotation and
\* rotate_key_now, decrypt returns Ok at most once for a given message.
C3_DecryptAtMostOnce ==
    \A i \in 1..Len(mgr_out) : mgr_accepted[i] <= 1

(***************************************************************************)
(* Claims about MixerManager (checked under SpecMixer)                     *)
(***************************************************************************)
\* the role a peer holds: local_role for the local peer, the participant's
\* role for a remote one
RoleOf(m, id) ==
    IF id = m.local_peer_id THEN m.local_role ELSE m.participants[id].role

\* the peers the manager knows: the remote participants and the local peer
KnownIds(m) == DOMAIN m.participants \cup {m.local_peer_id}

\* the peers that hold the Mixer role
MixerHolders(m) == {id \in KnownIds(m) : RoleOf(m, id) = "Mixer"}

\* is_mixer() is true only while the local peer is the current mixer
LocalDemoted ==
    is_mixer(mixer) => mixer.current_mixer = Some(mixer.local_peer_id)

\* C5: after any sequence of select_mixer, rotate_mixer, add_participant and
\* remove_participant calls the current mixer holds the Mixer role, every
\* peer chosen before has been demoted to Peer (so nobody but the current
\* mixer holds the Mixer role), and is_mixer() is true only while the local
\* peer is the current mixer.
C5_SingleMixer ==
    /\ (mixer.current_mixer # None /\ Unwrap(mixer.current_mixer) \in KnownIds(mixer))
           => RoleOf(mixer, Unwrap(mixer.current_mixer)) = "Mixer"
    /\ \A id \in MixerHolders(mixer) : mixer.current_mixer = Some(id)
    /\ Cardinality(MixerHolders(mixer)) <= 1
    /\ LocalDemoted

\* the smallest peer id of a set
SmallestId(ids) == CHOOSE i \in ids : \A j \in ids : i <= j

\* the MixerManager of the node whose local peer is l, when that node knows the
\* same peers as m with the same statistics and has not elected a mixer yet
NodeView(m, l) ==
    [MixerManager_new(l, m.config.full_mesh_threshold) EXCEPT
        !.topology_mode = m.topology_mode,
        !.participants =
            [id \in KnownIds(m) \ {l} |->
                [role |-> "Peer",
                 stats |-> IF id \in DOMAIN m.participants
                           THEN m.participants[id].stats
                           ELSE ParticipantStats_new]]]

\* all the peers of the score list have the same score
IdenticalScores(sc) == \A i, j \in DOMAIN sc : sc[i] = sc[j]

\* C6: when every node sees the same peer ids with identical scores, the
\* MixerManager of each node (each with its own local peer) elects the same
\* mixer: the lexicographically smallest peer id.
C6_DeterministicElection ==
    (mixer.topology_mode = "SFU" /\ IdenticalScores(all_scores(mixer))) =>
        \A l \in KnownIds(mixer) :
            /\ all_scores(NodeView(mixer, l)) = all_scores(mixer)
            /\ select_mixer(NodeView(mixer, l), now).current_mixer
                  = Some(SmallestId(KnownIds(mixer)))

\* an election with identical scores has been run on a node whose local peer
\* is not the smallest id, among at least three peers
C6_Witness ==
    /\ mx_last.op = "select_mixer"
    /\ mixer.topology_mode = "SFU"
    /\ IdenticalScores(all_scores(mixer))
    /\ Cardinality(KnownIds(mixer)) >= 3
    /\ mixer.local_peer_id # SmallestId(KnownIds(mixer))
    /\ mixer.current_mixer = Some(SmallestId(KnownIds(mixer)))

\* the candidates that have the highest score
Leaders(sc) == {i \in DOMAIN sc : \A j \in DOMAIN sc : sc[j] <= sc[i]}

\* the score ranked second: the highest again when two candidates share it,
\* otherwise the highest score among the candidates other than the leader
RunnerUpScore(sc) ==
    LET others == DOMAIN sc \ Leaders(sc)
    IN  IF Cardinality(Leaders(sc)) >= 2 \/ others = {}
        THEN sc[SmallestId(Leaders(sc))]
        ELSE sc[CHOOSE i \in others : \A j \in others : sc[j] <= sc[i]]

\* the relative gap between the two highest scores is below 5 %:
\* (top - second) / max(top, 0.001) < 0.05, in integer arithmetic
GapBelowThreshold(sc) ==
    LET top == sc[SmallestId(Leaders(sc))]
        floor == IF top >= SCORE_EPSILON THEN top ELSE SCORE_EPSILON
    IN  100 * (top - RunnerUpScore(sc)) < SCORE_TIE_THRESHOLD * floor

\* C7: select_mixer in SFU mode ranks the candidates by total score; if the
\* relative gap between the top two is below 5 % the lexicographically
\* smallest peer id of the candidate list is selected, otherwise the single
\* top-scoring candidate is.
C7_SelectByScore ==
    (mx_last.op \in {"select_mixer", "rotate_mixer"} /\ mixer.topology_mode = "SFU") =>
        LET sc == all_scores(mixer)
        IN  IF Cardinality(DOMAIN sc) >= 2 /\ GapBelowThreshold(sc)
            THEN mixer.current_mixer = Some(SmallestId(DOMAIN sc))
            ELSE /\ Cardinality(Leaders(sc)) = 1
                 /\ mixer.current_mixer = Some(SmallestId(Leaders(sc)))

\* select_mixer has chosen a clear winner that is not the smallest peer id
C7_Witness ==
    /\ mx_last.op = "select_mixer"
    /\ mixer.topology_mode = "SFU"
    /\ ~GapBelowThreshold(all_scores(mixer))
    /\ mixer.current_mixer # None
    /\ mixer.current_mixer # Some(SmallestId(KnownIds(mixer)))

\* C8: after any sequence of add_participant and remove_participant calls the
\* topology mode is FullMesh exactly when the participant count (the remote
\* participants plus the local peer) is at most the threshold, and SFU exactly
\* when the count exceeds it.
C8_TopologyMatchesCount ==
    /\ mixer.topology_mode = "FullMesh"
          <=> get_participant_count(mixer) <= mixer.config.full_mesh_threshold
    /\ mixer.topology_mode = "SFU"
          <=> get_participant_count(mixer) > mixer.config.full_mesh_threshold

\* with the default threshold, remove_participant has brought an SFU room back
\* to exactly the threshold
C8_Witness ==
    /\ mixer.config.full_mesh_threshold = FULL_MESH_MAX_PARTICIPANTS
    /\ mx_last.op = "remove_participant"
    /\ mx_last.mode = "SFU"
    /\ get_participant_count(mixer) = FULL_MESH_MAX_PARTICIPANTS
    /\ mixer.topology_mode = "FullMesh"

\* C9: an add_participant call that takes the participant count from at most
\* the threshold to above it while there is no current mixer runs select_mixer
\* within the call: after it the mode is SFU and a current mixer, one of the
\* known peers, is set.
C9_SelectOnCrossing ==
    [][ (/\ MixerAddParticipant
         /\ get_participant_count(mixer) <= mixer.config.full_mesh_threshold
         /\ get_participant_count(mixer') > mixer'.config.full_mesh_threshold
         /\ mixer.current_mixer = None)
        => (/\ mixer'.topology_mode = "SFU"
            /\ mixer'.current_mixer # None
            /\ Unwrap(mixer'.current_mixer) \in KnownIds(mixer')
            /\ mixer'.mixer_start_time # None) ]_vars

\* add_participant has just crossed the threshold of a room that had no mixer
C9_Witness ==
    /\ mx_last.op = "add_participant"
    /\ mx_last.mode = "FullMesh"
    /\ ~mx_last.had_mixer
    /\ get_participant_count(mixer) = mixer.config.full_mesh_threshold + 1
    /\ mixer.topology_mode = "SFU"
    /\ mixer.current_mixer # None

\* candidate c scores better than candidate cur in sc, or less by under 5 %
ComparableOrBetter(sc, c, cur) ==
    100 * (sc[cur] - sc[c]) < SCORE_TIE_THRESHOLD * Max2(sc[cur], SCORE_EPSILON)

\* the step is a rotate_mixer call in SFU mode whose current mixer is still a
\* candidate and, with the scores rotate_mixer computes after it has zeroed
\* that mixer's session duration, has a rival of comparable or better score
RotationWithRival ==
    /\ mx_last'.op = "rotate_mixer"
    /\ mixer.topology_mode = "SFU"
    /\ mixer.current_mixer # None
    /\ LET sc == all_scores(mixer')
           cur == Unwrap(mixer.current_mixer)
       IN  /\ cur \in DOMAIN sc
           /\ \E c \in DOMAIN sc \ {cur} : ComparableOrBetter(sc, c, cur)

\* C20: a rotate_mixer call made while another candidate's score is
\* comparable to or better than the current mixer's (after the zeroing of the
\* mixer's session duration) ends with a different current mixer.
C20_RotationChangesMixer ==
    [][RotationWithRival => mixer'.current_mixer # mixer.current_mixer]_vars

(***************************************************************************)
(* Claims about IceAgent (checked under SpecIce)                           *)
(***************************************************************************)
\* the checklist positions whose pair is Succeeded
SucceededIdx == {i \in 1..Len(ice.checklist) : ice.checklist[i].state = "Succeeded"}

\* the selected pair is a Succeeded pair of the checklist and no Succeeded
\* pair has a higher priority
SelectedIsBestSucceeded ==
    /\ ice.selected_pair # None
    /\ \E i \in SucceededIdx :
          /\ ice.checklist[i].local = Unwrap(ice.selected_pair).local
          /\ ice.checklist[i].remote = Unwrap(ice.selected_pair).remote
    /\ \A j \in SucceededIdx :
          U64_ge(Unwrap(ice.selected_pair).priority, ice.checklist[j].priority)

\* no pair of the checklist carries an aggressive nomination
NoPairNominated == \A i \in 1..Len(ice.checklist) : ~ice.checklist[i].nominated

\* C10: when perform_connectivity_checks ends, if no checklist pair is
\* Succeeded the state is Failed and an error is returned; otherwise the state
\* is Connected, Ok is returned and, if no pair was nominated aggressively,
\* the selected pair is the highest-priority Succeeded pair.
C10_FinalSelection ==
    ice_run.pc = "returned" =>
        IF SucceededIdx = {}
        THEN ice.state = "Failed" /\ ice_run.res = "err"
        ELSE /\ ice.state = "Connected"
             /\ ice_run.res = "ok"
             /\ NoPairNominated => SelectedIsBestSucceeded

\* C11: in Aggressive nomination mode, right after a pair's check has
\* succeeded the pair is Succeeded and nominated, it is the selected pair,
\* and the iteration is over: no pending pair is left to check in it and
\* the run is back at the head of its while loop.
C11_AggressiveNomination ==
    (ice.config.nomination_mode = "Aggressive" /\ ice_run.just_ok # 0) =>
        /\ ice.checklist[ice_run.just_ok].state = "Succeeded"
        /\ ice.checklist[ice_run.just_ok].nominated
        /\ ice.selected_pair = Some(ice.checklist[ice_run.just_ok])
        /\ ice_run.pending = << >>
        /\ ice_run.pc = "while"

\* an aggressive nomination ended an iteration that had another pending pair:
\* that pair is still Waiting
C11_Witness ==
    /\ ice.config.nomination_mode = "Aggressive"
    /\ ice_run.just_ok # 0
    /\ ice.selected_pair = Some(ice.checklist[ice_run.just_ok])
    /\ \E j \in 1..Len(ice.checklist) :
          j > ice_run.just_ok /\ ice.checklist[j].state = "Waiting"

\* the checklist positions whose pair has the foundation of the pair at i
\* (the foundation of a pair is the foundation of its local candidate)
SameFoundation(i) ==
    {j \in 1..Len(ice.checklist) :
        ice.checklist[j].local.foundation = ice.checklist[i].local.foundation}

\* the first of a non-empty set of checklist positions
FirstOf(S) == CHOOSE i \in S : \A j \in S : i <= j

\* C12: right after a checklist update (the last call was gather_candidates
\* or add_remote_candidate), for each foundation exactly one pair is Waiting:
\* the first pair of the checklist with that foundation, which has the highest
\* priority among them; every other pair with that foundation is Frozen.
C12_OneWaitingPerFoundation ==
    ice_run.pc = "idle" =>
        \A i \in 1..Len(ice.checklist) :
            LET first == FirstOf(SameFoundation(i))
            IN  /\ ice.checklist[i].state = IF i = first THEN "Waiting" ELSE "Frozen"
                /\ U64_ge(ice.checklist[first].priority, ice.checklist[i].priority)

\* a checklist update left two foundations with two pairs each
C12_Witness ==
    /\ ice_run.pc = "idle"
    /\ \E i, j \in 1..Len(ice.checklist) :
          /\ SameFoundation(i) # SameFoundation(j)
          /\ Cardinality(SameFoundation(i)) >= 2
          /\ Cardinality(SameFoundation(j)) >= 2
          /\ ice.checklist[FirstOf(SameFoundation(i))].state = "Waiting"

\* the pair list positions holding a pair of the two connection addresses
PairsOf(l, r) ==
    {i \in 1..Len(ice.candidate_pairs) :
        /\ ice.candidate_pairs[i].local.connection_addr = l.connection_addr
        /\ ice.candidate_pairs[i].remote.connection_addr = r.connection_addr}

\* C13: the pair list (which only gather_candidates and add_remote_candidate
\* change) holds exactly one pair for each combination of the connection
\* address of a known local candidate and the connection address of a known
\* remote candidate, and it is sorted by pair priority, highest first.
C13_PairList ==
    /\ \A l \in Range(ice.local_candidates), r \in Range(ice.remote_candidates) :
          Cardinality(PairsOf(l, r)) = 1
    /\ \A i, j \in 1..Len(ice.candidate_pairs) :
          i < j => U64_ge(ice.candidate_pairs[i].priority, ice.candidate_pairs[j].priority)

\* no pair of the checklist is Waiting or InProgress
NoPairPending ==
    \A i \in 1..Len(ice.checklist) : ice.checklist[i].state \notin {"Waiting", "InProgress"}

\* the budget of the run (config.connectivity_timeout) has elapsed
BudgetElapsed == ice_run.elapsed >= ice.config.connectivity_timeout

\* C14: every perform_connectivity_checks call returns, and when its loop
\* has ended either the configured budget has elapsed or no checklist pair
\* is Waiting or InProgress.
C14_ChecksTerminate ==
    /\ [](ice_run.pc = "returned" => (BudgetElapsed \/ NoPairPending))
    /\ (ice_run.pc = "while") ~> (ice_run.pc = "returned")

\* a run has returned because its budget elapsed, with a pair still Waiting
C14_Witness ==
    /\ ice_run.pc = "returned"
    /\ BudgetElapsed
    /\ ~NoPairPending

(***************************************************************************)
(* Claims about the replay set of EncryptedChannel                         *)
(***************************************************************************)
\* the last call was a decrypt (of an authentic or a forged message) that failed
DecryptFailed == ch_last.op \in {"decrypt", "forged"} /\ ch_last.res # "ok"

\* C17: a decrypt that fails (expired key, replayed counter, authentication
\* failure) leaves the replay set as it was; and the first decrypt of an
\* authentic message under the key the channel holds returns Ok unless the
\* key has expired, whatever forged messages, also of the same counter, the
\* channel was given before.
C17_FailedDecryptFrame ==
    /\ [][DecryptFailed' => channel'.recv_counters = channel.recv_counters]_vars
    /\ []((ch_last.op = "decrypt" /\ ChUnderCurrentKey(ch_last.idx)
                                  /\ ChPrior(ch_last.idx) = 0)
            => ch_last.res \in {"ok", "expired"})

\* an authentic message was decrypted after a forged message of its counter
\* had been rejected under the same key
C17_Witness ==
    /\ ch_last.op = "decrypt"
    /\ ch_last.res = "ok"
    /\ ChUnderCurrentKey(ch_last.idx)
    /\ extract_counter(ch_out[ch_last.idx].nonce) \in ch_forged

\* the step keeps the replay set entry of counter c as it is
EntryKept(c) ==
    /\ c \in DOMAIN channel'.recv_counters
    /\ channel'.recv_counters[c] = channel.recv_counters[c]

\* in a step under one key (rotate_key starts a new replay set), every entry
\* whose age satisfies Young is kept
YoungEntriesKept(Young(_)) ==
    channel'.session_key = channel.session_key =>
        \A c \in DOMAIN channel.recv_counters :
            Young(now - channel.recv_counters[c]) => EntryKept(c)

\* a decrypt of a message less than 5 minutes after its first successful
\* decrypt does not return Ok
ReplayWithinHorizonRejected ==
    (/\ ch_last.op = "decrypt"
     /\ ChPrior(ch_last.idx) >= 1
     /\ now - ch_first[ch_last.idx] < REPLAY_RETENTION_SECS)
        => ch_last.res # "ok"

C19_RoundTrip ==
    (/\ ch_last.op = "decrypt"
     /\ ChUnderCurrentKey(ch_last.idx)
     /\ ChPrior(ch_last.idx) = 0
     /\ ch_last.res # "expired")
        => /\ ch_last.res = "ok"
           /\ ch_last.out = Some(ch_out[ch_last.idx].ciphertext.p)

(***************************************************************************)
(* Claims about the key ids of SessionKeyManager (checked under SpecKeys)  *)
(***************************************************************************)
\* the KeyRotationEvents the last call returned for room r
EventsOf(r) == {e \in mgr_last.events : e.room_id = r}

\* C16: the key ids of a room have no gap: the current id is 1 plus the
\* number of rotations since create_room (so create_room installs id 1 and
\* every rotation installs the old id plus 1); a room never rotated has no
\* previous key; after a rotation the previous key is the old current key,
\* with the id just below, from which the current key was derived; and the
\* event a rotation emits carries the new id and the old id.
C16_GapFreeKeyIds ==
    \A r \in RoomIds :
        rooms[r] # None =>
            LET room == Unwrap(rooms[r])
            IN  /\ room.current_key.id = 1 + rotations[r]
                /\ IF rotations[r] = 0
                   THEN room.previous_key = None
                   ELSE /\ room.previous_key # None
                        /\ Unwrap(room.previous_key).id = room.current_key.id - 1
                        /\ room.current_key.key.key =
                              hkdf_expand(Unwrap(room.previous_key).key.key,
                                          room.current_key.id)
                /\ mgr_last.op \in {"check_rotation", "rotate_key_now"} =>
                      \A e \in EventsOf(r) :
                          /\ e.new_key_id = room.current_key.id
                          /\ e.previous_key_id = room.current_key.id - 1

\* a room rotated twice, the second time by check_rotation, which emitted
\* the event of the rotation from id 2 to id 3
C16_Witness ==
    \E r \in RoomIds :
        /\ rooms[r] # None
        /\ rotations[r] = 2
        /\ Unwrap(rooms[r]).current_key.id = 3
        /\ mgr_last.op = "check_rotation"
        /\ EventsOf(r) # {}

(***************************************************************************)
(* Claims about JitterBuffer (checked under SpecJitter)                    *)
(***************************************************************************)
\* C15: with in-order pushes, a pop made at a depth above 0 returns the
\* oldest packet pushed and not yet popped (the pops return the packets in
\* the order they were pushed), and a pop made at depth 0 returns None.
C15_FifoOrder ==
    jb_last.op = "pop" =>
        jb_last.got = IF jb_last.depth > 0 THEN Some(jb_pushed[jb_pops]) ELSE None

(***************************************************************************)
(* Rotation of the mixer and connection targets                            *)
(***************************************************************************)
\* the last call was check_rotation, made in SFU mode with a mixer selected
RotationChecked ==
    /\ mx_last.op = "check_rotation"
    /\ mx_last.mode = "SFU"
    /\ mx_last.had_mixer

\* C21: in SFU mode with a mixer selected, check_rotation returns true exactly
\* when the time since the mixer started is at least the rotation interval,
\* and a check_rotation made right after rotate_mixer returns false.
C21_RotationDue ==
    /\ [](RotationChecked =>
            /\ mixer.mixer_start_time # None
            /\ mx_last.res =
                  (now - Unwrap(mixer.mixer_start_time) >= mixer.config.rotation_interval))
    /\ [][(mx_last.op = "rotate_mixer" /\ mx_last'.op = "check_rotation")
             => ~mx_last'.res]_vars

\* check_rotation has answered true, one interval after the mixer was set at a
\* later instant than the start
C21_Witness ==
    /\ RotationChecked
    /\ mx_last.res
    /\ mixer.mixer_start_time # None
    /\ Unwrap(mixer.mixer_start_time) > 0
    /\ mixer.pending_rotation

\* C22: get_connection_targets returns every remote participant in FullMesh
\* mode; in SFU mode it returns the current mixer alone, or nothing when the
\* local peer is the mixer; the local peer is never returned.
C22_ConnectionTargets ==
    LET targets == get_connection_targets(mixer)
    IN  /\ mixer.topology_mode = "FullMesh" => targets = DOMAIN mixer.participants
        /\ mixer.topology_mode = "SFU" =>
              /\ mixer.current_mixer # None
              /\ targets = IF mixer.current_mixer = Some(mixer.local_peer_id)
                           THEN {}
                           ELSE {Unwrap(mixer.current_mixer)}
        /\ mixer.local_peer_id \notin targets

\* SFU mode with the local peer as the mixer, after a remote peer was the
\* mixer
C22_Witness ==
    /\ mixer.topology_mode = "SFU"
    /\ mixer.current_mixer = Some(mixer.local_peer_id)
    /\ get_connection_targets(mixer) = {}
    /\ mixer.local_peer_id = 2

(***************************************************************************)
(* Claims about NoiseSession (checked under SpecNoise)                     *)
(***************************************************************************)
\* the handshake messages written so far, in order
HandshakeSent == SelectSeq(noise_sent, LAMBDA m : m.kind = "handshake")

\* the responder has just read the third message of the pattern
ThirdMessageRead ==
    /\ noise_last.op = "read_handshake_message"
    /\ noise_last.side = "responder"
    /\ noise_last.res = "ok"
    /\ Len(HandshakeSent) = XX_MESSAGES

\* C23: the handshake takes exactly three messages, written by the initiator,
\* the responder and the initiator; no session is in transport mode before the
\* third message is written, both are once it has been read, and a session
\* in transport mode holds the other's static public key.
C23_ThreeMessages ==
    /\ Len(HandshakeSent) <= XX_MESSAGES
    /\ \A k \in DOMAIN HandshakeSent :
          /\ HandshakeSent[k].n = k - 1
          /\ HandshakeSent[k].from_initiator = (k % 2 = 1)
    /\ Len(HandshakeSent) < XX_MESSAGES =>
          /\ ~is_handshake_complete(noise.initiator)
          /\ ~is_handshake_complete(noise.responder)
    /\ ThirdMessageRead =>
          /\ is_handshake_complete(noise.initiator)
          /\ is_handshake_complete(noise.responder)
    /\ is_handshake_complete(noise.initiator) =>
          noise.initiator.remote_public_key = Some(noise.responder.local_public_key)
    /\ is_handshake_complete(noise.responder) =>
          noise.responder.remote_public_key = Some(noise.initiator.local_public_key)

\* the third message has just been read and both sessions are in transport
\* mode
C23_Witness ==
    /\ ThirdMessageRead
    /\ ~noise_last.complete
    /\ is_handshake_complete(noise.initiator)
    /\ is_handshake_complete(noise.responder)

\* the call recorded in c was a handshake-state violation: encrypt or decrypt
\* before the handshake is complete, a handshake call after it, or a handshake
\* call out of the order of the pattern
StateViolation(c) ==
    \/ c.op \in {"encrypt", "decrypt"} /\ ~c.complete
    \/ c.op \in {"write_handshake_message", "read_handshake_message"} /\ c.complete
    \/ c.op = "write_handshake_message" /\ ~c.complete /\ ~c.my_turn
    \/ c.op = "read_handshake_message" /\ ~c.complete /\ c.my_turn

\* C24: every handshake-state violation fails with a Crypto error and leaves
\* the sessions and the messages written as they were.
C24_StateViolationFails ==
    /\ [](StateViolation(noise_last) => noise_last.res = "crypto")
    /\ [][StateViolation(noise_last') => (noise' = noise /\ noise_sent' = noise_sent)]_vars

\* the responder has called read_handshake_message out of order, after reading
\* the first message and before writing the second
C24_Witness ==
    /\ noise_last.op = "read_handshake_message"
    /\ noise_last.side = "responder"
    /\ noise_last.my_turn
    /\ StateViolation(noise_last)
    /\ noise_last.res = "crypto"
    /\ Len(HandshakeSent) = 1

(***************************************************************************)
(* Claims about TcpHolePuncher (checked under SpecPunch, SpecPunchFair)    *)
(***************************************************************************)
\* the simultaneous-open attempts are bounded by retry_count and end at the
\* first connected socket; the sequential sweep is made once, after every
\* attempt has failed, and tries each peer endpoint at most once
BoundedAttempts ==
    /\ punch.opens <= punch.config.retry_count
    /\ punch.opens_connected <= 1
    /\ punch.opens_connected = 1 => (punch.pc = "returned" /\ punch.sweeps = 0)
    /\ punch.sweeps <= 1
    /\ punch.sweeps = 1 =>
          /\ punch.pc = "returned"
          /\ punch.opens = punch.config.retry_count
          /\ punch.opens_connected = 0
    /\ punch.sequential_connects <= punch.sweeps * Len(punch.peer_endpoints)
    /\ (punch.pc = "returned" /\ punch.peer_endpoints # << >>) =>
          (punch.opens_connected = 1 \/ punch.sweeps = 1)

\* C25: punch makes at most retry_count simultaneous-open attempts and returns
\* at the first that yields a connected socket; only when all of them have
\* failed it makes one sequential sweep over the peer endpoints and returns:
\* once the peer is ready the call always returns.
C25_BoundedRetries ==
    /\ []BoundedAttempts
    /\ (punch.pc = "ready") ~> (punch.pc = "returned")

\* every simultaneous-open attempt has failed and the sweep has connected to
\* the second peer endpoint
C25_Witness ==
    /\ punch.pc = "returned"
    /\ punch.config.retry_count = MaxRetry
    /\ punch.opens = MaxRetry
    /\ punch.sweeps = 1
    /\ punch.sequential_connects = 2
    /\ punch.result = Some(TcpHolePunchResult(TRUE, Some(punch.peer_endpoints[2]), "Sequential"))

(***************************************************************************)
(* Claims about AudioPipeline (checked under SpecAudio)                    *)
(***************************************************************************)
\* C26: the capture ring and the playback ring are trimmed on every push, so
\* neither is ever longer than the ten frames of the trim plus the frame just
\* pushed.
C26_RingsBounded ==
    /\ audio.input_len <= (RING_TRIM_FRAMES + 1) * FRAME_SIZE
    /\ audio.output_len <= (RING_TRIM_FRAMES + 1) * FRAME_SIZE

\* start() has returned an error
StartFailed == audio_last.op = "start" /\ audio_last.res \notin {"ok", "pending"}

\* C27: the pipeline is marked running only once the backend thread has sent
\* its acknowledgement; start() returns success exactly with a running
\* pipeline; on a backend error, or after 5 seconds without a message on the
\* readiness channel, it returns an Audio error and the pipeline is not
\* running.
C27_StartAcknowledged ==
    /\ [](audio.is_running => audio.acked)
    /\ []((audio_last.op = "start" /\ audio_last.res = "ok") => audio.is_running)
    /\ [](StartFailed =>
            /\ audio_last.res = "audio"
            /\ ~audio.is_running
            /\ \/ audio_last.ready = Some("err")
               \/ audio_last.ready = None /\ audio_last.waited >= READY_TIMEOUT_SECS)
    /\ [][(audio.starting /\ ~audio'.starting) =>
             /\ audio.ready = Some("ok") => audio_last'.res = "ok"
             /\ audio.ready = Some("err") => audio_last'.res = "audio"
             /\ audio.ready = None =>
                   (audio_last'.res = "audio" /\ audio.waited >= READY_TIMEOUT_SECS)]_vars

\* start() has timed out, and the backend thread has started its streams
\* afterwards
C27_Witness ==
    /\ StartFailed
    /\ audio_last.ready = None
    /\ ~audio.is_running
    /\ audio.streams
    /\ audio.acked

(***************************************************************************)
(* Claims about candidate pairs (checked under SpecIce)                    *)
(***************************************************************************)
\* 2^32 * min(G, D) + 2 * max(G, D) + (1 if G > D else 0) as a u64, for the
\* larger priority G and the smaller priority D of a pair
PairPriorityFormula(local_priority, remote_priority) ==
    LET g == IF local_priority >= remote_priority THEN local_priority ELSE remote_priority
        d == IF local_priority >= remote_priority THEN remote_priority ELSE local_priority
    IN  U64_add(U64_add(U64_shl32(U64_from_u32(d)),
                        U64_add(U64_from_u32(g), U64_from_u32(g))),
                U64_from_u32(IF g > d THEN 1 ELSE 0))

\* C28: the priority of every candidate pair is
\* 2^32 * min(G, D) + 2 * max(G, D) + (1 if G > D else 0).
C28_PairPriority ==
    \A i \in DOMAIN ice.candidate_pairs :
        LET pair == ice.candidate_pairs[i]
        IN  pair.priority = PairPriorityFormula(pair.local.priority, pair.remote.priority)

\* a candidate has been added: gather_candidates or add_remote_candidate has
\* formed pairs and updated the checklist
CandidatesAdded ==
    \/ Len(ice'.local_candidates) > Len(ice.local_candidates)
    \/ Len(ice'.remote_candidates) > Len(ice.remote_candidates)

\* the pair p of the checklist has been checked or nominated
PairSettled(p) == p.state \in {"Succeeded", "Failed"} \/ p.nominated

\* C29: adding a remote candidate or gathering again leaves every pair of the
\* checklist that is Succeeded, Failed or nominated in the checklist with the
\* same state and the same nomination.
C29_SettledPairsKept ==
    [][CandidatesAdded =>
          \A i \in DOMAIN ice.checklist :
              PairSettled(ice.checklist[i]) =>
                  \E j \in DOMAIN ice'.checklist :
                      /\ ice'.checklist[j].local = ice.checklist[i].local
                      /\ ice'.checklist[j].remote = ice.checklist[i].remote
                      /\ ice'.checklist[j].state = ice.checklist[i].state
                      /\ ice'.checklist[j].nominated = ice.checklist[i].nominated]_vars

\* perform_connectivity_checks leaves its loop and finalize_selection sets the
\* agent to Failed while the budget has not elapsed
ChecksEndFailedInBudget ==
    /\ ice_run.pc = "while"
    /\ ice_run'.pc = "returned"
    /\ ice'.state = "Failed"
    /\ ice_run.elapsed < ice.config.connectivity_timeout

\* C30: when perform_connectivity_checks ends in state Failed before its
\* budget has elapsed, every pair of the checklist, the pairs that started
\* Frozen included, has been checked: it is Succeeded or Failed.
C30_EveryPairChecked ==
    [][ChecksEndFailedInBudget =>
          \A i \in DOMAIN ice'.checklist :
              ice'.checklist[i].state \in {"Succeeded", "Failed"}]_vars

\* a step of a perform_connectivity_checks run that has already nominated and
\* selected a pair
StepAfterNomination == ice_run.nominations >= 1 /\ ice_run'.nominations >= 1

\* C31: in one perform_connectivity_checks run, once a pair has been
\* nominated and selected, no later step of the run nominates another pair or
\* replaces the selected pair.
C31_OneNomination ==
    [][StepAfterNomination =>
          /\ ice_run'.nominations = ice_run.nominations
          /\ ice'.selected_pair = ice.selected_pair]_vars

\* the checklist holds the pair p (its two candidates) in state Succeeded
SucceededInChecklist(p) ==
    \E i \in 1..Len(ice.checklist) :
        /\ ice.checklist[i].local = p.local
        /\ ice.checklist[i].remote = p.remote
        /\ ice.checklist[i].state = "Succeeded"

\* C32: between calls, the agent has a selected pair only while its state is
\* Connected, and that pair is Succeeded in the current checklist; whenever
\* the state is Failed, selected_pair() and get_selected_connection() are None.
C32_SelectedWhileConnected ==
    IceFree =>
        /\ ice.selected_pair # None =>
              /\ ice.state = "Connected"
              /\ SucceededInChecklist(Unwrap(ice.selected_pair))
        /\ ice.state = "Failed" =>
              /\ ice.selected_pair = None
              /\ get_selected_connection(ice) = None

\* the score of candidate c is within the 5 % tie threshold of the highest
\* score of the list: (top - sc[c]) / max(top, 0.001) < 0.05
WithinTieThreshold(sc, c) ==
    LET top == sc[SmallestId(Leaders(sc))]
        floor == IF top >= SCORE_EPSILON THEN top ELSE SCORE_EPSILON
    IN  100 * (top - sc[c]) < SCORE_TIE_THRESHOLD * floor

\* C33: the mixer chosen by select_mixer has a total score within the 5 % tie
\* threshold of the highest score among the candidates.
C33_ChosenNearTop ==
    (mx_last.op = "select_mixer" /\ mixer.topology_mode = "SFU") =>
        /\ mixer.current_mixer # None
        /\ Unwrap(mixer.current_mixer) \in KnownIds(mixer)
        /\ WithinTieThreshold(all_scores(mixer), Unwrap(mixer.current_mixer))

\* C34: whenever the topology mode is FullMesh there is no mixer:
\* get_current_mixer() is None, no participant holds the Mixer role and
\* is_mixer() is false (so mix_incoming_audio passes local audio through).
C34_FullMeshNoMixer ==
    mixer.topology_mode = "FullMesh" =>
        /\ mixer.current_mixer = None
        /\ MixerHolders(mixer) = {}
        /\ ~is_mixer(mixer)

\* C35: the current mixer, when set, is the local peer or a remote
\* participant that is in the participant map, and every connection target is
\* in the participant map: a departed peer is neither.
C35_MixerIsPresent ==
    /\ mixer.current_mixer # None => Unwrap(mixer.current_mixer) \in KnownIds(mixer)
    /\ get_connection_targets(mixer) \subseteq DOMAIN mixer.participants

\* the remote peer that was the mixer has been removed and another remote
\* participant has taken its place
C35_Witness ==
    /\ mx_last.op = "remove_participant"
    /\ mx_last.mixer_left
    /\ mixer.topology_mode = "SFU"
    /\ mixer.current_mixer # None
    /\ Unwrap(mixer.current_mixer) \in DOMAIN mixer.participants
    /\ get_connection_targets(mixer) = {Unwrap(mixer.current_mixer)}

\* a push is being made: the stream of pushed packets grows
PushMade == Len(jb_pushed') = Len(jb_pushed) + 1

\* C36: buffer_depth never exceeds the number of ring slots, and a push never
\* overwrites a packet that has not been popped: the slot it writes is empty.
C36_RingNeverOverrun ==
    [][PushMade =>
          /\ jitter.frames[(jitter.write_idx % Len(jitter.frames)) + 1] = None
          /\ buffer_depth(jitter') <= Len(jitter'.frames)]_vars

\* the connection attempts punch has made: simultaneous opens and sweeps
ConnectionAttempts == punch.opens + punch.sweeps

\* punch waits for the peer only after it has announced its own endpoints,
\* and attempts no connection before the peer's endpoints have arrived
SignalingFirst ==
    /\ punch.pc \in {"sent_ready", "ready"} => punch.announced # None
    /\ punch.pc \in {"idle", "sent_ready"} => ConnectionAttempts = 0
    /\ ConnectionAttempts > 0 => punch.announced # None

\* send_ready or wait_for_peer_ready fails
SignalingFails == punch.pc \in {"idle", "sent_ready"} /\ punch'.pc = "returned"

\* C37: punch announces its own endpoints with send_ready before it waits in
\* wait_for_peer_ready and starts no connection attempt until the peer's
\* endpoints have been received; if either signaling call fails, punch returns
\* that error without attempting any connection.
C37_SignalingBeforeConnecting ==
    /\ []SignalingFirst
    /\ [][SignalingFails =>
             /\ punch'.result = Some(PunchErr)
             /\ punch'.opens = 0
             /\ punch'.sweeps = 0]_vars

\* the endpoints were announced, wait_for_peer_ready failed, and punch
\* returned the error without a connection attempt
C37_Witness ==
    /\ punch.pc = "returned"
    /\ punch.announced # None
    /\ punch.result = Some(PunchErr)
    /\ ConnectionAttempts = 0

\* no call is in progress and the pipeline reports is_running() == false
PipelineStopped == ~audio.is_running /\ ~audio.starting

\* no backend thread is left and the streams are released
BackendGone == audio.thread \in {"none", "exited"} /\ ~audio.streams

\* C38: once the pipeline reports is_running() == false (after stop(), or after
\* a start() that failed or timed out) the backend thread eventually observes
\* the Stop command or the disconnected channel, releases the streams and
\* terminates.
C38_BackendTerminates == PipelineStopped ~> BackendGone

\* stop() was called on a pipeline whose backend had started its streams, and
\* the thread has taken the Stop command and left
C38_Witness ==
    /\ audio_last.op = "stop"
    /\ audio.acked
    /\ audio.thread = "exited"
    /\ ~audio.streams
    /\ audio.commands = << >>

(***************************************************************************)
(* Claims about the signaling server (checked under SpecSignaling)         *)
(***************************************************************************)
\* C39: after a connection has closed and cleanup_peer has run, no room's peer
\* list still holds an entry that a Join of that connection added.
C39_NoEntryLeftBehind ==
    sig_last.op = "close" =>
        \A e \in sig_added :
            e[1] = sig_last.conn => e[3] \notin signaling.rooms[e[2]]

\* the connection c is a member of room r: r is the room of the connection, or
\* the room's peer list holds the connection's peer id
MemberOf(c, r) ==
    /\ c \in DOMAIN signaling.peers
    /\ \/ signaling.peers[c].room_id = Some(r)
       \/ (r \in DOMAIN signaling.rooms /\ c \in signaling.rooms[r])

\* C40: a PeerJoined notification for a room is delivered only to connected
\* peers that are members of that room.
C40_PeerJoinedToMembers ==
    sig_last.op = "Join" =>
        \A c \in sig_last.peer_joined : MemberOf(c, sig_last.room)

====
